---------------------------- MODULE Spec2Model ----------------------------
(***************************************************************************)
(* MTG Arena deck builder (src/app.js): the deck-list parser, the deck     *)
(* text renderer, the colour filter, the prompt grouping, the deck         *)
(* statistics and the request/response control flow of the page.           *)
(*                                                                         *)
(* Texts are sequences of one-character strings.  A JavaScript Number that *)
(* holds a non-negative integer is modelled by its canonical decimal       *)
(* expansion (a sequence of digit characters without leading zeros); this  *)
(* is exact for every value a double represents exactly, which is the case *)
(* for every count of the inputs below.  An array that the code replaces   *)
(* by null when it is empty is modelled by the empty sequence.             *)
(***************************************************************************)
EXTENDS Integers, Sequences, FiniteSets, TLC

VARIABLES
    \* ---- globals of src/app.js
    cardNames,              \* let cardNames = []
    cardDataMap,            \* let cardDataMap = {}
    selectedColors,         \* let selectedColors = new Set()
    conversationHistory,    \* let conversationHistory = []
    currentDeckText,        \* let currentDeckText = ''
    dbLoaded,               \* db !== null
    loadAlerted,            \* loadDatabase's catch block ran (the alert)
    \* ---- the page
    phase,                  \* init(): "loading" until setupEventListeners ran
    apiKey,                 \* apiKeyInput.value
    generateBtnDisabled,    \* generateBtn.disabled
    chatSendBtnDisabled,    \* chatSendBtn.disabled
    chatInputDisabled,      \* chatInput.disabled
    chatInputValue,         \* chatInput.value
    loadingHidden,          \* loadingOverlay has class hidden
    errorShown,             \* generateError lacks class hidden
    chatMessages,           \* the children of #chat-messages: [role, content]
    deckOutput,             \* deckOutput.textContent
    sideboardOutput,        \* sideboardOutput.textContent
    sideboardHidden,        \* sideboardContainer has class hidden
    stats,                  \* what statsContent shows
    \* ---- requests to the text-generation service
    inflight,               \* fetch calls of callChatGPT not yet settled
    nextId,                 \* history: number of requests issued so far
    epoch,                  \* history: number of resets of conversationHistory
    processed,              \* history: the replies handled, in handling order
    \* ---- inputs and results of the functions applied on their own
    dbRows,                 \* loadDatabase: results[0].values, the rows of db.exec
    exchange,               \* the proxies: the last request answered and its answer
    replyText,              \* parseDeckList: the argument `text`
    parsed,                 \* parseDeckList: the returned object
    reparsed,               \* parseDeckList applied to currentDeckText
    filtered,               \* getFilteredCardList: the returned array
    cardListText,           \* buildCardListText: the returned text
    pstep                   \* position in the pipeline of function applications

appVars ==
    <<cardNames, cardDataMap, selectedColors, conversationHistory, currentDeckText,
      dbLoaded, loadAlerted>>

pageVars ==
    <<phase, apiKey, generateBtnDisabled, chatSendBtnDisabled, chatInputDisabled,
      chatInputValue, loadingHidden, errorShown, chatMessages, deckOutput,
      sideboardOutput, sideboardHidden, stats>>

requestVars == <<inflight, nextId, epoch, processed>>

pipeVars == <<dbRows, exchange, replyText, parsed, reparsed, filtered, cardListText, pstep>>

vars == <<appVars, pageVars, requestVars, pipeVars>>

(***************************************************************************)
(* Characters                                                              *)
(***************************************************************************)
Digits == {"0", "1", "2", "3", "4", "5", "6", "7", "8", "9"}

\* what String.prototype.trim strips and \s matches (the members that occur)
WhiteSpace == {" ", "\t", "\r", "\n"}

\* what the regular expression `.` does not match
LineTerminators == {"\n", "\r"}

UpperToLower ==
    "A" :> "a" @@ "B" :> "b" @@ "C" :> "c" @@ "D" :> "d" @@ "E" :> "e" @@
    "F" :> "f" @@ "G" :> "g" @@ "H" :> "h" @@ "I" :> "i" @@ "J" :> "j" @@
    "K" :> "k" @@ "L" :> "l" @@ "M" :> "m" @@ "N" :> "n" @@ "O" :> "o" @@
    "P" :> "p" @@ "Q" :> "q" @@ "R" :> "r" @@ "S" :> "s" @@ "T" :> "t" @@
    "U" :> "u" @@ "V" :> "v" @@ "W" :> "w" @@ "X" :> "x" @@ "Y" :> "y" @@
    "Z" :> "z"

\* case folding of the /i flag
FoldCase(s) ==
    [i \in 1..Len(s) |-> IF s[i] \in DOMAIN UpperToLower THEN UpperToLower[s[i]] ELSE s[i]]

Null == <<>>

(***************************************************************************)
(* String primitives used by parseDeckList and displayDeck                 *)
(***************************************************************************)
\* index of the first occurrence of character c in s at or after i, 0 if none
RECURSIVE IndexFrom(_, _, _)
IndexFrom(s, c, i) ==
    IF i > Len(s) THEN 0
    ELSE IF s[i] = c THEN i
    ELSE IndexFrom(s, c, i + 1)

\* text.split(sep): always at least one piece
RECURSIVE Split(_, _)
Split(s, sep) ==
    LET k == IndexFrom(s, sep, 1) IN
    IF k = 0 THEN <<s>>
    ELSE <<SubSeq(s, 1, k - 1)>> \o Split(SubSeq(s, k + 1, Len(s)), sep)

RECURSIVE TrimStart(_)
TrimStart(s) ==
    IF s # <<>> /\ Head(s) \in WhiteSpace THEN TrimStart(Tail(s)) ELSE s

RECURSIVE TrimEnd(_)
TrimEnd(s) ==
    IF s # <<>> /\ s[Len(s)] \in WhiteSpace THEN TrimEnd(SubSeq(s, 1, Len(s) - 1)) ELSE s

\* String.prototype.trim
Trim(s) == TrimEnd(TrimStart(s))

\* lines.join(sep)
RECURSIVE Join(_, _)
Join(ls, sep) ==
    IF ls = <<>> THEN <<>>
    ELSE IF Len(ls) = 1 THEN ls[1]
    ELSE ls[1] \o <<sep>> \o Join(Tail(ls), sep)

\* length of the longest prefix of s, starting at i, whose characters are in S
RECURSIVE RunLen(_, _, _)
RunLen(s, i, S) ==
    IF i <= Len(s) /\ s[i] \in S THEN 1 + RunLen(s, i + 1, S) ELSE 0

(***************************************************************************)
(* Numbers                                                                 *)
(***************************************************************************)
\* largest number of digits String(n) prints in full: from 1e21 on it
\* switches to exponent notation
MaxPlainDigits == 21

RECURSIVE StripLeadingZeros(_)
StripLeadingZeros(d) ==
    IF Len(d) > 1 /\ Head(d) = "0" THEN StripLeadingZeros(Tail(d)) ELSE d

RECURSIVE StripTrailingZeros(_)
StripTrailingZeros(d) ==
    IF Len(d) > 1 /\ d[Len(d)] = "0" THEN StripTrailingZeros(SubSeq(d, 1, Len(d) - 1)) ELSE d

\* parseInt(digits, 10) of a non-empty digit string
parseInt(d) == StripLeadingZeros(d)

DigitChar == <<"0", "1", "2", "3", "4", "5", "6", "7", "8", "9">>

\* decimal expansion of a natural number
RECURSIVE NatToDigits(_)
NatToDigits(n) ==
    IF n < 10 THEN <<DigitChar[n + 1]>>
    ELSE NatToDigits(n \div 10) \o <<DigitChar[(n % 10) + 1]>>

DigitVal(c) == CHOOSE v \in 0..9 : DigitChar[v + 1] = c

\* the value of a Number as a natural
RECURSIVE NumVal(_)
NumVal(d) ==
    IF Len(d) = 1 THEN DigitVal(d[1])
    ELSE 10 * NumVal(SubSeq(d, 1, Len(d) - 1)) + DigitVal(d[Len(d)])

\* String(n), as the template literal `${entry.count}` applies it
NumberToString(n) ==
    IF Len(n) <= MaxPlainDigits THEN n
    ELSE LET m == StripTrailingZeros(n) IN
         <<m[1]>> \o (IF Len(m) > 1 THEN <<".">> \o Tail(m) ELSE <<>>)
                  \o <<"e", "+">> \o NatToDigits(Len(n) - 1)

(***************************************************************************)
(* parseDeckList                                                           *)
(***************************************************************************)
DeckHeader == <<"d", "e", "c", "k">>
SideboardHeader == <<"s", "i", "d", "e", "b", "o", "a", "r", "d">>

\* /^deck$/i.test(trimmed)
IsDeckHeader(trimmed) == FoldCase(trimmed) = DeckHeader

\* /^sideboard$/i.test(trimmed)
IsSideboardHeader(trimmed) == FoldCase(trimmed) = SideboardHeader

\* trimmed.match(/^(\d+)x?\s+(.+)$/): [ok, digits (group 1), rest (group 2)]
MatchEntry(trimmed) ==
    LET nd == RunLen(trimmed, 1, Digits)
        hasX == nd + 1 <= Len(trimmed) /\ trimmed[nd + 1] = "x"
        \* x? is greedy; when the x is taken and \s+ then fails, the empty
        \* alternative leaves \s+ facing the x, which fails as well
        afterX == IF hasX THEN nd + 2 ELSE nd + 1
        ns == RunLen(trimmed, afterX, WhiteSpace)
        rest == SubSeq(trimmed, afterX + ns, Len(trimmed))
        ok == /\ nd >= 1
              /\ ns >= 1
              /\ rest # <<>>
              /\ \A i \in 1..Len(rest) : rest[i] \notin LineTerminators
    IN  IF ok THEN [ok |-> TRUE, digits |-> SubSeq(trimmed, 1, nd), rest |-> rest]
        ELSE [ok |-> FALSE, digits |-> <<>>, rest |-> <<>>]

\* /^[-=]+$/.test(trimmed)
IsDecorative(trimmed) ==
    /\ trimmed # <<>>
    /\ \A i \in 1..Len(trimmed) : trimmed[i] \in {"-", "="}

\* the local variables of parseDeckList before the loop
ParserStart ==
    [deck |-> <<>>, sideboard |-> <<>>, currentSection |-> "null",
     explanation |-> <<>>, pastDeck |-> FALSE]

\* ParseLine without the test of currentSection and with the main deck as
\* the section before any header: an entry line is recorded wherever it is
ParseLineAnySection(st, line) ==
    LET trimmed == Trim(line)
        match == MatchEntry(trimmed)
    IN
    IF IsDeckHeader(trimmed) THEN [st EXCEPT !.currentSection = "deck"]
    ELSE IF IsSideboardHeader(trimmed) THEN [st EXCEPT !.currentSection = "sideboard"]
    ELSE IF match.ok THEN
        LET entry == [count |-> parseInt(match.digits), name |-> Trim(match.rest)] IN
        IF st.currentSection = "sideboard"
        THEN [st EXCEPT !.sideboard = Append(@, entry)]
        ELSE [st EXCEPT !.deck = Append(@, entry)]
    ELSE
        LET past == \/ st.pastDeck
                    \/ /\ Len(st.deck) > 0
                       /\ trimmed # <<>>
                       /\ st.currentSection # "sideboard"
                       /\ ~IsDecorative(trimmed)
        IN [st EXCEPT !.pastDeck = past,
                      !.explanation = IF past /\ trimmed # <<>>
                                      THEN Append(@, trimmed) ELSE @]

\* ParseLine without `currentSection !== 'sideboard'`: a prose line read in
\* the sideboard section starts the explanation as well
ParseLineSideboardToo(st, line) ==
    LET trimmed == Trim(line)
        match == MatchEntry(trimmed)
    IN
    IF IsDeckHeader(trimmed) THEN [st EXCEPT !.currentSection = "deck"]
    ELSE IF IsSideboardHeader(trimmed) THEN [st EXCEPT !.currentSection = "sideboard"]
    ELSE IF match.ok /\ st.currentSection # "null" THEN
        LET entry == [count |-> parseInt(match.digits), name |-> Trim(match.rest)] IN
        IF st.currentSection = "deck"
        THEN [st EXCEPT !.deck = Append(@, entry)]
        ELSE [st EXCEPT !.sideboard = Append(@, entry)]
    ELSE
        LET past == \/ st.pastDeck
                    \/ /\ Len(st.deck) > 0
                       /\ ~match.ok
                       /\ trimmed # <<>>
                       /\ ~IsDecorative(trimmed)
        IN [st EXCEPT !.pastDeck = past,
                      !.explanation = IF past /\ trimmed # <<>>
                                      THEN Append(@, trimmed) ELSE @]

\* ParseLine with the push inside the test for decorative lines: a line of
\* only '-' or '=' is never part of the explanation
ParseLineNoRules(st, line) ==
    LET trimmed == Trim(line)
        match == MatchEntry(trimmed)
    IN
    IF IsDeckHeader(trimmed) THEN [st EXCEPT !.currentSection = "deck"]
    ELSE IF IsSideboardHeader(trimmed) THEN [st EXCEPT !.currentSection = "sideboard"]
    ELSE IF match.ok /\ st.currentSection # "null" THEN
        LET entry == [count |-> parseInt(match.digits), name |-> Trim(match.rest)] IN
        IF st.currentSection = "deck"
        THEN [st EXCEPT !.deck = Append(@, entry)]
        ELSE [st EXCEPT !.sideboard = Append(@, entry)]
    ELSE
        LET past == \/ st.pastDeck
                    \/ /\ Len(st.deck) > 0
                       /\ ~match.ok
                       /\ trimmed # <<>>
                       /\ st.currentSection # "sideboard"
                       /\ ~IsDecorative(trimmed)
        IN [st EXCEPT !.pastDeck = past,
                      !.explanation = IF past /\ trimmed # <<>> /\ ~IsDecorative(trimmed)
                                      THEN Append(@, trimmed) ELSE @]

\* ParseLine with the headers tested without the anchors ^ and $: a line
\* that contains the word changes the section
ParseLineWordAnywhere(st, line) ==
    LET trimmed == Trim(line)
        folded == FoldCase(trimmed)
        match == MatchEntry(trimmed)
        has(w) == \E i \in 1..(Len(folded) - Len(w) + 1) :
                      SubSeq(folded, i, i + Len(w) - 1) = w
    IN
    IF has(DeckHeader) THEN [st EXCEPT !.currentSection = "deck"]
    ELSE IF has(SideboardHeader) THEN [st EXCEPT !.currentSection = "sideboard"]
    ELSE IF match.ok /\ st.currentSection # "null" THEN
        LET entry == [count |-> parseInt(match.digits), name |-> Trim(match.rest)] IN
        IF st.currentSection = "deck"
        THEN [st EXCEPT !.deck = Append(@, entry)]
        ELSE [st EXCEPT !.sideboard = Append(@, entry)]
    ELSE
        LET past == \/ st.pastDeck
                    \/ /\ Len(st.deck) > 0
                       /\ ~match.ok
                       /\ trimmed # <<>>
                       /\ st.currentSection # "sideboard"
                       /\ ~IsDecorative(trimmed)
        IN [st EXCEPT !.pastDeck = past,
                      !.explanation = IF past /\ trimmed # <<>>
                                      THEN Append(@, trimmed) ELSE @]

\* one iteration of `for (const line of lines)`
ParseLine(st, line) ==
    LET trimmed == Trim(line)
        match == MatchEntry(trimmed)
    IN
    IF IsDeckHeader(trimmed) THEN [st EXCEPT !.currentSection = "deck"]
    ELSE IF IsSideboardHeader(trimmed) THEN [st EXCEPT !.currentSection = "sideboard"]
    ELSE IF match.ok /\ st.currentSection # "null" THEN
        LET entry == [count |-> parseInt(match.digits), name |-> Trim(match.rest)] IN
        IF st.currentSection = "deck"
        THEN [st EXCEPT !.deck = Append(@, entry)]
        ELSE [st EXCEPT !.sideboard = Append(@, entry)]
    ELSE
        LET past == \/ st.pastDeck
                    \/ /\ Len(st.deck) > 0
                       /\ ~match.ok
                       /\ trimmed # <<>>
                       /\ st.currentSection # "sideboard"
                       /\ ~IsDecorative(trimmed)
        IN [st EXCEPT !.pastDeck = past,
                      !.explanation = IF past /\ trimmed # <<>>
                                      THEN Append(@, trimmed) ELSE @]

RECURSIVE ParseLines(_, _, _)
ParseLines(st, lines, i) ==
    IF i > Len(lines) THEN st
    ELSE ParseLines(ParseLine(st, lines[i]), lines, i + 1)

\* the object returned for a reply with no main-deck entry: { deck: null }
NoDeck == [deck |-> Null, sideboard |-> Null, explanation |-> <<>>]

parseDeckList(text) ==
    LET st == ParseLines(ParserStart, Split(text, "\n"), 1) IN
    IF Len(st.deck) = 0 THEN NoDeck
    ELSE [deck |-> st.deck,
          sideboard |-> IF Len(st.sideboard) > 0 THEN st.sideboard ELSE Null,
          explanation |-> Join(st.explanation, "\n")]

(***************************************************************************)
(* displayDeck: the Arena-format text                                      *)
(***************************************************************************)
\* EntryLine with the separating space left out
EntryLineNoSpace(entry) == NumberToString(entry.count) \o entry.name

\* `${entry.count} ${entry.name}`
EntryLine(entry) == NumberToString(entry.count) \o <<" ">> \o entry.name

\* entries rendered one per line, each followed by "\n"
RECURSIVE EntryLines(_)
EntryLines(entries) ==
    IF entries = <<>> THEN <<>>
    ELSE EntryLine(Head(entries)) \o <<"\n">> \o EntryLines(Tail(entries))

\* currentDeckText as displayDeck builds it
BuildDeckText(p) ==
    Trim(<<"D", "e", "c", "k", "\n">> \o EntryLines(p.deck)
         \o (IF p.sideboard # Null /\ Len(p.sideboard) > 0
             THEN <<"\n", "S", "i", "d", "e", "b", "o", "a", "r", "d", "\n">>
                  \o EntryLines(p.sideboard)
             ELSE <<>>))

(***************************************************************************)
(* Reply texts fed to the parser                                           *)
(***************************************************************************)
\* most lines of a generated reply text
MaxLines == 4

LineDeck == <<"D", "e", "c", "k">>
LineSideboardCR == <<"S", "i", "d", "e", "b", "o", "a", "r", "d", "\r">>
LineShock == <<"4", " ", "S", "h", "o", "c", "k">>
LineNegate == <<"0", "2", "x", " ", "N", "e", "g", "a", "t", "e">>
LineZeroOpt == <<"0", " ", "O", "p", "t">>
LineHuge ==
    <<"1", "0", "0", "0", "0", "0", "0", "0", "0", "0", "0", "0", "0", "0", "0",
      "0", "0", "0", "0", "0", "0", "0", " ", "I", "s", "l", "a", "n", "d">>
LineBlank == <<>>
LineRule == <<"-", "-", "-">>
LineProse == <<"G", "o", "o", "d", " ", "d", "e", "c", "k", ".">>

LinePool ==
    {LineDeck, LineSideboardCR, LineShock, LineNegate, LineZeroOpt, LineHuge,
     LineBlank, LineRule, LineProse}

Mountain == <<"M", "o", "u", "n", "t", "a", "i", "n">>
Shock == <<"S", "h", "o", "c", "k">>
Negate == <<"N", "e", "g", "a", "t", "e">>
Aggressive ==
    <<"T", "h", "i", "s", " ", "d", "e", "c", "k", " ", "i", "s", " ", "a", "g",
      "g", "r", "e", "s", "s", "i", "v", "e", ".">>

\* "Deck\n4 Mountain\n2 Shock\n\nSideboard\n1 Negate\n\nThis deck is aggressive."
ScenarioText ==
    Join(<<LineDeck, <<"4", " ">> \o Mountain, <<"2", " ">> \o Shock, <<>>,
           <<"S", "i", "d", "e", "b", "o", "a", "r", "d">>, <<"1", " ">> \o Negate,
           <<>>, Aggressive>>, "\n")

ReplyTexts ==
    {Join(ls, "\n") : ls \in UNION {[1..n -> LinePool] : n \in 0..MaxLines}}
        \cup {ScenarioText}

(***************************************************************************)
(* Catalog: loadDatabase and safeParseJSON                                 *)
(*                                                                         *)
(* A value JSON.parse returns is [kind, items]: an array of one-character  *)
(* strings (kind "array") or a number (kind "number", items its digits).   *)
(* A cmc is held in halves (cmc2 = 2 * cmc), so that 2.5 is the value 5.   *)
(***************************************************************************)
EmptyArray == [kind |-> "array", items |-> <<>>]

\* the pieces of a JSON array body, split at the commas, each trimmed
ArrayPieces(body) ==
    LET ps == Split(body, ",") IN [i \in 1..Len(ps) |-> Trim(ps[i])]

\* a JSON string literal holding one character
IsCharLiteral(p) == Len(p) = 3 /\ p[1] = "\"" /\ p[3] = "\"" /\ p[2] \notin {"\"", "\\"}

\* JSON.parse(str) for the texts of the catalog's JSON columns:
\* [ok |-> FALSE] stands for the SyntaxError it throws
JSONParse(str) ==
    LET t == Trim(str) IN
    IF t # <<>> /\ RunLen(t, 1, Digits) = Len(t) /\ (Len(t) = 1 \/ t[1] # "0")
    THEN [ok |-> TRUE, value |-> [kind |-> "number", items |-> t]]
    ELSE IF Len(t) >= 2 /\ t[1] = "[" /\ t[Len(t)] = "]"
    THEN LET body == Trim(SubSeq(t, 2, Len(t) - 1))
             ps == ArrayPieces(body)
         IN  IF body = <<>> THEN [ok |-> TRUE, value |-> EmptyArray]
             ELSE IF \A i \in 1..Len(ps) : IsCharLiteral(ps[i])
             THEN [ok |-> TRUE,
                   value |-> [kind |-> "array",
                              items |-> [i \in 1..Len(ps) |-> ps[i][2]]]]
             ELSE [ok |-> FALSE, value |-> EmptyArray]
    ELSE [ok |-> FALSE, value |-> EmptyArray]

\* safeParseJSON(str, fallback); an SQL NULL is the empty text, falsy like ''
safeParseJSON(str, fallback) ==
    IF str = <<>> THEN fallback
    ELSE IF JSONParse(str).ok THEN JSONParse(str).value
    ELSE fallback

\* the Card that the row loop stores in cardDataMap[name]
CardOfRow(row) ==
    [colorIdentity |-> safeParseJSON(row.color_identity, EmptyArray),
     typeLine |-> row.type_line,
     manaCost |-> row.mana_cost,
     cmc2 |-> row.cmc2,
     rarity |-> row.rarity,
     oracleText |-> row.oracle_text,
     keywords |-> safeParseJSON(row.keywords, EmptyArray)]

\* cardNames after the row loop: one push per row
NamesOfRows(rows) == [i \in 1..Len(rows) |-> rows[i].name]

\* cardDataMap after the row loop: a later row of the same name overwrites
MapOfRows(rows) ==
    [n \in {rows[i].name : i \in 1..Len(rows)} |->
        CardOfRow(rows[CHOOSE i \in 1..Len(rows) :
                        /\ rows[i].name = n
                        /\ \A j \in 1..Len(rows) : rows[j].name = n => j <= i])]

(***************************************************************************)
(* getFilteredCardList                                                     *)
(***************************************************************************)
\* String.prototype.includes
Includes(s, sub) ==
    \E i \in 1..(Len(s) - Len(sub) + 1) : SubSeq(s, i, i + Len(sub) - 1) = sub

BasicLand == <<"B", "a", "s", "i", "c", " ", "L", "a", "n", "d">>

\* FilterVerdict with ci.some in place of ci.every
FilterVerdictSome(card, sel) ==
    LET wantColorless == "C" \in sel
        wubrg == sel \ {"C"}
        ci == card.colorIdentity
    IN
    IF Includes(card.typeLine, BasicLand) THEN "in"
    ELSE IF wubrg = {} /\ ~wantColorless THEN "in"
    ELSE IF ci.kind = "array" /\ Len(ci.items) = 0
    THEN (IF wantColorless \/ wubrg = {} THEN "in" ELSE "out")
    ELSE IF ci.kind # "array" THEN "throw"
    ELSE IF \E i \in 1..Len(ci.items) : ci.items[i] \in wubrg THEN "in" ELSE "out"

\* the callback of cardNames.filter: "in", "out", or "throw" for the
\* TypeError of ci.every on a value that is not an array
FilterVerdict(card, sel) ==
    LET wantColorless == "C" \in sel
        wubrg == sel \ {"C"}
        ci == card.colorIdentity
    IN
    IF Includes(card.typeLine, BasicLand) THEN "in"
    ELSE IF wubrg = {} /\ ~wantColorless THEN "in"
    ELSE IF ci.kind = "array" /\ Len(ci.items) = 0
    THEN (IF wantColorless \/ wubrg = {} THEN "in" ELSE "out")
    ELSE IF ci.kind # "array" THEN "throw"
    ELSE IF \A i \in 1..Len(ci.items) : ci.items[i] \in wubrg THEN "in" ELSE "out"

\* FilterFrom with the kept names collected in reverse (unshift for push)
RECURSIVE FilterFromUnshift(_, _, _, _, _)
FilterFromUnshift(names, map, sel, i, acc) ==
    IF i > Len(names) THEN [threw |-> FALSE, names |-> acc]
    ELSE LET v == FilterVerdict(map[names[i]], sel) IN
         IF v = "throw" THEN [threw |-> TRUE, names |-> <<>>]
         ELSE FilterFromUnshift(names, map, sel, i + 1,
                                IF v = "in" THEN <<names[i]>> \o acc ELSE acc)

RECURSIVE FilterFrom(_, _, _, _, _)
FilterFrom(names, map, sel, i, acc) ==
    IF i > Len(names) THEN [threw |-> FALSE, names |-> acc]
    ELSE LET v == FilterVerdict(map[names[i]], sel) IN
         IF v = "throw" THEN [threw |-> TRUE, names |-> <<>>]
         ELSE FilterFrom(names, map, sel, i + 1,
                         IF v = "in" THEN Append(acc, names[i]) ELSE acc)

\* getFilteredCardList() on the globals cardNames, cardDataMap, selectedColors
getFilteredCardList(names, map, sel) == FilterFrom(names, map, sel, 1, <<>>)

(***************************************************************************)
(* buildCardListText                                                       *)
(***************************************************************************)
TypeChars ==
    "Creature" :> <<"C", "r", "e", "a", "t", "u", "r", "e">> @@ "Instant" :> <<"I", "n", "s", "t", "a", "n", "t">> @@
    "Sorcery" :> <<"S", "o", "r", "c", "e", "r", "y">> @@ "Enchantment" :> <<"E", "n", "c", "h", "a", "n", "t", "m", "e", "n", "t">> @@
    "Artifact" :> <<"A", "r", "t", "i", "f", "a", "c", "t">> @@ "Planeswalker" :> <<"P", "l", "a", "n", "e", "s", "w", "a", "l", "k", "e", "r">> @@
    "Land" :> <<"L", "a", "n", "d">> @@ "Battle" :> <<"B", "a", "t", "t", "l", "e">> @@ "Other" :> <<"O", "t", "h", "e", "r">>

\* BaseTypeOf with the Artifact test ahead of the Creature test
BaseTypeOfArtifactFirst(tl) ==
    IF Includes(tl, TypeChars["Artifact"]) THEN "Artifact"
    ELSE IF Includes(tl, TypeChars["Creature"]) THEN "Creature"
    ELSE IF Includes(tl, TypeChars["Instant"]) THEN "Instant"
    ELSE IF Includes(tl, TypeChars["Sorcery"]) THEN "Sorcery"
    ELSE IF Includes(tl, TypeChars["Enchantment"]) THEN "Enchantment"
    ELSE IF Includes(tl, TypeChars["Planeswalker"]) THEN "Planeswalker"
    ELSE IF Includes(tl, TypeChars["Land"]) THEN "Land"
    ELSE IF Includes(tl, TypeChars["Battle"]) THEN "Battle"
    ELSE "Other"

\* the if / else-if chain that sets baseType
BaseTypeOf(tl) ==
    IF Includes(tl, TypeChars["Creature"]) THEN "Creature"
    ELSE IF Includes(tl, TypeChars["Instant"]) THEN "Instant"
    ELSE IF Includes(tl, TypeChars["Sorcery"]) THEN "Sorcery"
    ELSE IF Includes(tl, TypeChars["Enchantment"]) THEN "Enchantment"
    ELSE IF Includes(tl, TypeChars["Artifact"]) THEN "Artifact"
    ELSE IF Includes(tl, TypeChars["Planeswalker"]) THEN "Planeswalker"
    ELSE IF Includes(tl, TypeChars["Land"]) THEN "Land"
    ELSE IF Includes(tl, TypeChars["Battle"]) THEN "Battle"
    ELSE "Other"

typeOrder ==
    <<"Creature", "Instant", "Sorcery", "Enchantment", "Artifact",
      "Planeswalker", "Battle", "Land", "Other">>

\* groups[type] after the first loop: the names of the type, in order
GroupOf(filteredNames, map, type) ==
    SelectSeq(filteredNames, LAMBDA n : BaseTypeOf(map[n].typeLine) = type)

\* `${name} | ${c.manaCost} | ${c.typeLine} | ${c.rarity}\n`
CardLine(name, c) ==
    name \o <<" ", "|", " ">> \o c.manaCost \o <<" ", "|", " ">> \o c.typeLine \o <<" ", "|", " ">>
         \o c.rarity \o <<"\n">>

RECURSIVE CardLines(_, _)
CardLines(names, map) ==
    IF names = <<>> THEN <<>>
    ELSE CardLine(Head(names), map[Head(names)]) \o CardLines(Tail(names), map)

\* `\n--- ${type}s (${groups[type].length}) ---\n`
GroupHeader(type, n) ==
    <<"\n", "-", "-", "-", " ">> \o TypeChars[type] \o <<"s", " ", "(">> \o NatToDigits(n) \o <<")", " ", "-", "-", "-", "\n">>

RECURSIVE BlocksFrom(_, _, _)
BlocksFrom(filteredNames, map, k) ==
    IF k > Len(typeOrder) THEN <<>>
    ELSE LET g == GroupOf(filteredNames, map, typeOrder[k]) IN
         (IF g = <<>> THEN <<>>
          ELSE GroupHeader(typeOrder[k], Len(g)) \o CardLines(g, map))
         \o BlocksFrom(filteredNames, map, k + 1)

buildCardListText(filteredNames, map) == BlocksFrom(filteredNames, map, 1)

(***************************************************************************)
(* computeAndDisplayStats                                                  *)
(***************************************************************************)
\* Math.min(Math.floor(data.cmc), 7) clamps the bucket at 7
CurveCap == 7

\* the keys of the displayed curve: ['0','1','2','3','4','5','6','7+']
CurveLabels == <<"0", "1", "2", "3", "4", "5", "6", "7+">>

\* const label = cmcBucket >= 7 ? '7+' : String(cmcBucket)
CurveLabel(cmc2) ==
    LET floorCmc == cmc2 \div 2
        cmcBucket == IF floorCmc < CurveCap THEN floorCmc ELSE CurveCap
    IN  IF cmcBucket >= CurveCap THEN "7+" ELSE CurveLabels[cmcBucket + 1]

\* cardDataMap is a plain object ({}): a name that is no row of the catalog
\* still finds the members every object inherits, these among them
ObjectPrototypeNames ==
    {<<"c", "o", "n", "s", "t", "r", "u", "c", "t", "o", "r">>,
     <<"t", "o", "S", "t", "r", "i", "n", "g">>,
     <<"v", "a", "l", "u", "e", "O", "f">>}

\* what cardDataMap[name] gives: the card of a row, an inherited member (a
\* function, truthy, without typeLine) or undefined
LookupKind(name, map) ==
    IF name \in DOMAIN map THEN "card"
    ELSE IF name \in ObjectPrototypeNames THEN "inherited"
    ELSE "undefined"

\* the counters before the loop; threw: a TypeError left the function
StatsStart ==
    [totalCards |-> 0, totalCreatures |-> 0, totalLands |-> 0, totalSpells |-> 0,
     manaCurve |-> <<>>, threw |-> FALSE]

\* (manaCurve[label] || 0)
CurveAt(manaCurve, label) ==
    IF label \in DOMAIN manaCurve THEN manaCurve[label] ELSE 0

\* one iteration of `for (const entry of allCards)`; for an inherited member
\* data.typeLine is undefined and tl.includes throws
StatsEntry(acc, entry, map) ==
    LET n == NumVal(entry.count)
        counted == [acc EXCEPT !.totalCards = @ + n]
        data == LookupKind(entry.name, map)
    IN
    IF data = "undefined" THEN counted
    ELSE IF data = "inherited" THEN [counted EXCEPT !.threw = TRUE]
    ELSE
        LET tl == map[entry.name].typeLine
            isLand == Includes(tl, TypeChars["Land"])
            typed == IF isLand THEN [counted EXCEPT !.totalLands = @ + n]
                     ELSE IF Includes(tl, TypeChars["Creature"])
                     THEN [counted EXCEPT !.totalCreatures = @ + n]
                     ELSE [counted EXCEPT !.totalSpells = @ + n]
            label == CurveLabel(map[entry.name].cmc2)
        IN  IF isLand THEN typed
            ELSE [typed EXCEPT !.manaCurve =
                     [l \in (DOMAIN @) \cup {label} |->
                         IF l = label THEN CurveAt(@, label) + n ELSE @[l]]]

RECURSIVE StatsLoop(_, _, _, _)
StatsLoop(acc, entries, map, i) ==
    IF i > Len(entries) \/ acc.threw THEN acc
    ELSE StatsLoop(StatsEntry(acc, entries[i], map), entries, map, i + 1)

\* computeAndDisplayStats(parsed): threw, or what it puts into statsContent,
\* the four totals, the eight curve values in display order and the
\* unrecognized names
computeAndDisplayStats(p, map) ==
    LET acc == StatsLoop(StatsStart, p.deck, map, 1)
        unrecognized ==
            SelectSeq(p.deck, LAMBDA e : LookupKind(e.name, map) = "undefined")
    IN  [threw |-> acc.threw,
         shown |->
            [totalCards |-> acc.totalCards,
             totalCreatures |-> acc.totalCreatures,
             totalSpells |-> acc.totalSpells,
             totalLands |-> acc.totalLands,
             curve |-> [k \in 1..Len(CurveLabels) |->
                           CurveAt(acc.manaCurve, CurveLabels[k])],
             unrecognized |-> [i \in 1..Len(unrecognized) |-> unrecognized[i].name]]]

\* statsContent before any deck was displayed
NoStats ==
    [totalCards |-> 0, totalCreatures |-> 0, totalSpells |-> 0, totalLands |-> 0,
     curve |-> [k \in 1..Len(CurveLabels) |-> 0], unrecognized |-> <<>>]

(***************************************************************************)
(* Catalog rows and decks fed to the functions                             *)
(***************************************************************************)
\* most rows of a generated catalog
MaxRows == 2

\* most entries of a generated main deck
MaxEntries == 2

\* largest count of a generated deck entry
MaxCount == 2

AllColors == {"W", "U", "B", "R", "G", "C"}

\* rows as db.exec returns them, in ORDER BY name; an SQL NULL text is <<>>
RowPool ==
    <<[name |-> <<"F", "o", "r", "e", "s", "t">>, color_identity |-> <<"[", "\"", "G", "\"", "]">>,
       type_line |-> <<"B", "a", "s", "i", "c", " ", "L", "a", "n", "d", " ", "-", " ", "F", "o", "r", "e", "s", "t">>, mana_cost |-> <<>>, cmc2 |-> 0,
       rarity |-> <<"c", "o", "m", "m", "o", "n">>,
       oracle_text |-> <<>>, keywords |-> <<"[", "]">>],
      [name |-> <<"G", "o", "l", "e", "m">>, color_identity |-> <<"[", "]">>,
       type_line |-> <<"A", "r", "t", "i", "f", "a", "c", "t", " ", "C", "r", "e", "a", "t", "u", "r", "e">>, mana_cost |-> <<"{", "8", "}">>, cmc2 |-> 16,
       rarity |-> <<"r", "a", "r", "e">>,
       oracle_text |-> <<>>, keywords |-> <<>>],
      [name |-> <<"L", "y", "r", "a">>, color_identity |-> <<"[", "\"", "G", "\"", ",", " ", "\"", "W", "\"", "]">>,
       type_line |-> <<"C", "r", "e", "a", "t", "u", "r", "e">>, mana_cost |-> <<"{", "G", "}", "{", "W", "}">>, cmc2 |-> 5,
       rarity |-> <<"m", "y", "t", "h", "i", "c">>,
       oracle_text |-> <<>>, keywords |-> <<"[", "\"", "F", "\"", "]">>],
      [name |-> <<"R", "u", "i", "n", "s">>, color_identity |-> <<>>,
       type_line |-> <<"B", "a", "t", "t", "l", "e", " ", "L", "a", "n", "d">>, mana_cost |-> <<>>, cmc2 |-> 0,
       rarity |-> <<"r", "a", "r", "e">>,
       oracle_text |-> <<>>, keywords |-> <<"[", "]">>],
      [name |-> <<"S", "h", "o", "c", "k">>, color_identity |-> <<"[", "\"", "R", "\"", "]">>,
       type_line |-> <<"I", "n", "s", "t", "a", "n", "t">>, mana_cost |-> <<"{", "R", "}">>, cmc2 |-> 2,
       rarity |-> <<"c", "o", "m", "m", "o", "n">>,
       oracle_text |-> <<>>, keywords |-> <<>>],
      [name |-> <<"Z", "o", "n", "e">>, color_identity |-> <<"[", "\"", "U", "\"", "]">>,
       type_line |-> <<>>, mana_cost |-> <<>>, cmc2 |-> 0,
       rarity |-> <<>>,
       oracle_text |-> <<>>, keywords |-> <<"[", "]">>]>>

\* the rows of RowPool at the indices of I, in the pool's order
RECURSIVE RowsAt(_, _)
RowsAt(I, k) ==
    IF k > Len(RowPool) THEN <<>>
    ELSE (IF k \in I THEN <<RowPool[k]>> ELSE <<>>) \o RowsAt(I, k + 1)

Catalogs ==
    {RowsAt(I, 1) : I \in {J \in SUBSET (1..Len(RowPool)) : Cardinality(J) <= MaxRows}}

\* names of deck entries: a land, a creature, a spell, one no row has and one
\* no row has that every object inherits
DeckNames == {<<"F", "o", "r", "e", "s", "t">>, <<"G", "o", "l", "e", "m">>, <<"S", "h", "o", "c", "k">>, <<"O", "p", "t">>,
              <<"c", "o", "n", "s", "t", "r", "u", "c", "t", "o", "r">>}

EntryPool == {[count |-> NatToDigits(c), name |-> n] : c \in 0..MaxCount, n \in DeckNames}

MainDecks == UNION {[1..n -> EntryPool] : n \in 1..MaxEntries}

\* rows whose JSON columns are not the text of an array, and a second row
\* (another oracle_id) with the name of a row of RowPool
RowNumberIdentity ==
    [name |-> <<"A", "b", "r", "a", "d", "e">>, color_identity |-> <<"5">>,
     type_line |-> <<"I", "n", "s", "t", "a", "n", "t">>, mana_cost |-> <<"{", "1", "}", "{", "R", "}">>, cmc2 |-> 4,
     rarity |-> <<"u", "n", "c", "o", "m", "m", "o", "n">>, oracle_text |-> <<>>, keywords |-> <<"[", "]">>]

RowBrokenIdentity ==
    [name |-> <<"B", "o", "l", "t">>, color_identity |-> <<"[", "\"", "R", "\"">>,
     type_line |-> <<"I", "n", "s", "t", "a", "n", "t">>, mana_cost |-> <<"{", "R", "}">>, cmc2 |-> 2,
     rarity |-> <<"c", "o", "m", "m", "o", "n">>, oracle_text |-> <<>>, keywords |-> <<"{">>]

RowNumberKeywords ==
    [name |-> <<"C", "h", "a", "r">>, color_identity |-> <<"[", "\"", "R", "\"", "]">>,
     type_line |-> <<"S", "o", "r", "c", "e", "r", "y">>, mana_cost |-> <<"{", "2", "}", "{", "R", "}">>, cmc2 |-> 6,
     rarity |-> <<"r", "a", "r", "e">>, oracle_text |-> <<>>, keywords |-> <<"7">>]

RowShockAgain ==
    [name |-> <<"S", "h", "o", "c", "k">>, color_identity |-> <<"[", "\"", "G", "\"", "]">>,
     type_line |-> <<"S", "o", "r", "c", "e", "r", "y">>, mana_cost |-> <<"{", "G", "}">>, cmc2 |-> 3,
     rarity |-> <<"r", "a", "r", "e">>, oracle_text |-> <<>>, keywords |-> <<"[", "]">>]

\* the rows a load may find, in ORDER BY name
LoadRowPool ==
    <<RowNumberIdentity, RowBrokenIdentity, RowNumberKeywords>>
        \o SubSeq(RowPool, 1, 5) \o <<RowShockAgain>> \o SubSeq(RowPool, 6, 6)

\* the rows of LoadRowPool at the indices of I, in the pool's order
RECURSIVE LoadRowsAt(_, _)
LoadRowsAt(I, k) ==
    IF k > Len(LoadRowPool) THEN <<>>
    ELSE (IF k \in I THEN <<LoadRowPool[k]>> ELSE <<>>) \o LoadRowsAt(I, k + 1)

LoadedRows ==
    {LoadRowsAt(I, 1) :
        I \in {J \in SUBSET (1..Len(LoadRowPool)) : Cardinality(J) <= MaxRows}}

(***************************************************************************)
(* The proxies in front of the text-generation service                     *)
(*                                                                         *)
(* The repository holds three of them: the worker of src/unnamed/part_000, *)
(* the worker at the end of src/app.js and the Pages function of           *)
(* src/functions/api/chat.js.  A handler is applied to one request; the    *)
(* await of the upstream fetch is the only point where it waits, and what  *)
(* the service answers (or that the fetch throws) is an input.             *)
(***************************************************************************)
\* most entries of body.messages in a generated request
MaxMessages == 1

\* body.max_tokens || 4000
DefaultMaxTokens == 4000

\* Math.min(..., 8000)
MaxTokensCap == 8000

\* ALLOWED_ORIGINS of src/unnamed/part_000
ALLOWED_ORIGINS ==
    <<<<"h", "t", "t", "p", "s", ":", "/", "/", "m", "r", "h", "e", "a", "t", "h", "v", ".", "g", "i", "t", "h", "u", "b", ".", "i", "o">>,
      <<"h", "t", "t", "p", ":", "/", "/", "l", "o", "c", "a", "l", "h", "o", "s", "t", ":", "8", "0", "0", "0">>,
      <<"h", "t", "t", "p", ":", "/", "/", "1", "2", "7", ".", "0", ".", "0", ".", "1", ":", "8", "0", "0", "0">>,
      <<"h", "t", "t", "p", ":", "/", "/", "l", "o", "c", "a", "l", "h", "o", "s", "t", ":", "8", "0", "8", "0">>,
      <<"h", "t", "t", "p", ":", "/", "/", "1", "2", "7", ".", "0", ".", "0", ".", "1", ":", "8", "0", "8", "0">>>>

\* ALLOWED_ORIGINS of the worker of src/app.js
ALLOWED_ORIGINS_app ==
    <<<<"h", "t", "t", "p", "s", ":", "/", "/", "y", "o", "u", "r", "u", "s", "e", "r", "n", "a", "m", "e", ".", "g", "i", "t", "h", "u", "b", ".", "i", "o">>,
      <<"h", "t", "t", "p", ":", "/", "/", "l", "o", "c", "a", "l", "h", "o", "s", "t", ":", "8", "0", "8", "0">>,
      <<"h", "t", "t", "p", ":", "/", "/", "1", "2", "7", ".", "0", ".", "0", ".", "1", ":", "8", "0", "8", "0">>>>

\* ALLOWED_ORIGINS.includes(origin)
OriginIncluded(origin) == \E i \in DOMAIN ALLOWED_ORIGINS : ALLOWED_ORIGINS[i] = origin

\* corsHeaders(origin)['Access-Control-Allow-Origin']
corsHeaders(origin) == IF OriginIncluded(origin) THEN origin ELSE ALLOWED_ORIGINS[1]

\* origin.startsWith(o)
StartsWith(origin, o) == Len(o) <= Len(origin) /\ SubSeq(origin, 1, Len(o)) = o

\* getCorsHeaders(request)['Access-Control-Allow-Origin'], origin being
\* request.headers.get('Origin') || ''
getCorsHeaders(origin) ==
    IF \E i \in DOMAIN ALLOWED_ORIGINS_app : StartsWith(origin, ALLOWED_ORIGINS_app[i])
    THEN origin ELSE ALLOWED_ORIGINS_app[1]

\* what the handlers read of the parsed body: messages (absent, a string or
\* an array of len entries), max_tokens, model and temperature
JsonObject(messagesKind, len, hasMaxTokens, maxTokens, model, temperature) ==
    [json |-> "object", messagesKind |-> messagesKind, messagesLen |-> len,
     hasMaxTokens |-> hasMaxTokens, maxTokens |-> maxTokens,
     model |-> model, temperature |-> temperature]

\* a body request.json() rejects, and the body `null`
BodyOfKind(json) ==
    [json |-> json, messagesKind |-> "absent", messagesLen |-> 0,
     hasMaxTokens |-> FALSE, maxTokens |-> 0,
     model |-> "absent", temperature |-> "absent"]

\* Array.isArray(body.messages)
IsArray(body) == body.messagesKind = "array"

\* model: body.model || 'gpt-4o', messages: body.messages,
\* temperature: body.temperature ?? 0.7,
\* max_tokens: Math.min(body.max_tokens || 4000, 8000)
Payload(body, authorization) ==
    LET wanted == IF body.hasMaxTokens /\ body.maxTokens # 0
                  THEN body.maxTokens ELSE DefaultMaxTokens
    IN  [model |-> IF body.model = "absent" THEN "gpt-4o" ELSE body.model,
         messagesKind |-> body.messagesKind,
         messagesLen |-> body.messagesLen,
         temperature |-> IF body.temperature = "absent" THEN "0.7" ELSE body.temperature,
         max_tokens |-> IF wanted < MaxTokensCap THEN wanted ELSE MaxTokensCap,
         authorization |-> authorization]

\* no fetch of the service was made
NoPayload ==
    [model |-> "none", messagesKind |-> "absent", messagesLen |-> 0,
     temperature |-> "none", max_tokens |-> 0, authorization |-> "none"]

\* a Response of a handler and whether it fetched the service: status, the
\* Access-Control-Allow-Origin header (<<>>: not set) and the body
Answer(status, allowOrigin, body, called, payload) ==
    [status |-> status, allowOrigin |-> allowOrigin, body |-> body,
     called |-> called, payload |-> payload]

\* the answer once the fetch of the service settled: its status and text are
\* passed on, a rejected fetch reaches the catch block
Forwarded(up, allowOrigin, payload, caught) ==
    IF up.throws THEN Answer(500, allowOrigin, caught, TRUE, payload)
    ELSE Answer(up.status, allowOrigin, "upstream", TRUE, payload)

\* the default export of src/unnamed/part_000: fetch(request, env)
WorkerFetch(request, keySet, up) ==
    LET headers == corsHeaders(request.origin)
        body == request.body
    IN
    IF request.method = "OPTIONS" THEN Answer(204, headers, "null", FALSE, NoPayload)
    ELSE IF request.method # "POST"
    THEN Answer(405, headers, "Method not allowed", FALSE, NoPayload)
    ELSE IF ~OriginIncluded(request.origin)
    THEN Answer(403, headers, "Origin not allowed", FALSE, NoPayload)
    ELSE IF body.json = "unreadable" \/ body.json = "null"
    THEN \* request.json() rejects, or body.messages of null throws
         Answer(500, headers, "Proxy error", FALSE, NoPayload)
    ELSE IF ~IsArray(body) \/ body.messagesLen = 0
    THEN Answer(400, headers, "Invalid request", FALSE, NoPayload)
    ELSE Forwarded(up, headers,
                   Payload(body, IF keySet THEN "Bearer key" ELSE "Bearer undefined"),
                   "Proxy error")

\* the default export at the end of src/app.js: fetch(request, env)
AppWorkerFetch(request, keySet, up) ==
    LET headers == getCorsHeaders(request.origin)
        body == request.body
    IN
    IF request.method = "OPTIONS" THEN Answer(204, headers, "null", FALSE, NoPayload)
    ELSE IF request.method # "POST"
    THEN Answer(405, headers, "Method not allowed", FALSE, NoPayload)
    ELSE IF body.json = "unreadable" \/ body.json = "null"
    THEN Answer(500, headers, "Internal worker error", FALSE, NoPayload)
    ELSE IF body.messagesKind = "absent" \/ ~IsArray(body)
    THEN \* !body.messages || !Array.isArray(body.messages)
         Answer(400, headers, "Invalid request", FALSE, NoPayload)
    ELSE Forwarded(up, headers,
                   Payload(body, IF keySet THEN "Bearer key" ELSE "Bearer undefined"),
                   "Internal worker error")

\* onRequestPost(context) of src/functions/api/chat.js
onRequestPost(request, keySet, up) ==
    LET body == request.body IN
    IF ~keySet
    THEN Answer(500, <<>>, "OPENAI_API_KEY is not configured", FALSE, NoPayload)
    ELSE IF body.json = "unreadable" \/ body.json = "null"
    THEN Answer(500, <<>>, "Proxy error", FALSE, NoPayload)
    ELSE IF ~IsArray(body) \/ body.messagesLen = 0
    THEN Answer(400, <<>>, "Invalid request", FALSE, NoPayload)
    ELSE Forwarded(up, <<>>, Payload(body, "Bearer key"), "Proxy error")

\* request.method
Methods == {"OPTIONS", "GET", "POST"}

\* request.headers.get('Origin') || '': no header, two listed origins, a
\* listed origin continued by another host, and an origin of no list
OriginPool ==
    {<<>>, ALLOWED_ORIGINS[1], ALLOWED_ORIGINS[4],
     ALLOWED_ORIGINS[4] \o <<".", "e", "v", "i", "l", ".", "e", "x", "a", "m", "p", "l", "e">>,
     <<"h", "t", "t", "p", "s", ":", "/", "/", "e", "v", "i", "l", ".", "e", "x", "a", "m", "p", "l", "e">>}

\* values of body.max_tokens
TokenPool == {0, 1, MaxTokensCap, MaxTokensCap + 1}

BodyPool ==
    {BodyOfKind("unreadable"), BodyOfKind("null")}
    \cup {JsonObject(k[1], k[2], t[1], t[2], m, temp) :
            k \in {<<"absent", 0>>, <<"string", 1>>}
                    \cup {<<"array", n>> : n \in 0..MaxMessages},
            t \in {<<FALSE, 0>>} \cup {<<TRUE, v>> : v \in TokenPool},
            m \in {"absent", "o1"},
            temp \in {"absent", "0"}}

Requests == [method : Methods, origin : OriginPool, body : BodyPool]

\* how the fetch of the service settles
UpstreamPool ==
    {[throws |-> FALSE, status |-> 200], [throws |-> FALSE, status |-> 429],
     [throws |-> TRUE, status |-> 0]}

\* no request was answered yet
NoExchange ==
    [handler |-> "none",
     request |-> [method |-> "none", origin |-> <<>>, body |-> BodyOfKind("unreadable")],
     keySet |-> FALSE,
     answer |-> Answer(0, <<>>, "none", FALSE, NoPayload)]

(***************************************************************************)
(* The state before DOMContentLoaded                                       *)
(***************************************************************************)
NoFilter == [threw |-> FALSE, names |-> <<>>]

InitApp ==
    /\ cardNames = <<>>
    /\ cardDataMap = <<>>
    /\ selectedColors = {}
    /\ conversationHistory = <<>>
    /\ currentDeckText = <<>>
    /\ dbLoaded = FALSE
    /\ loadAlerted = FALSE

\* The markup of the page is not among the sources: the three controls start
\* disabled, the state that onApiKeyChange and callChatGPT's finally block
\* are written to leave.
InitPage ==
    /\ phase = "loading"
    /\ apiKey = <<>>
    /\ generateBtnDisabled = TRUE
    /\ chatSendBtnDisabled = TRUE
    /\ chatInputDisabled = TRUE
    /\ chatInputValue = <<>>
    /\ loadingHidden = FALSE
    /\ errorShown = FALSE
    /\ chatMessages = <<>>
    /\ deckOutput = <<>>
    /\ sideboardOutput = <<>>
    /\ sideboardHidden = TRUE
    /\ stats = NoStats

InitRequests ==
    /\ inflight = {}
    /\ nextId = 0
    /\ epoch = 0
    /\ processed = <<>>

InitPipe ==
    /\ dbRows = <<>>
    /\ exchange = NoExchange
    /\ replyText = <<>>
    /\ parsed = NoDeck
    /\ reparsed = NoDeck
    /\ filtered = NoFilter
    /\ cardListText = <<>>
    /\ pstep = "idle"

\* the page left alone while a function is applied on its own
PageIdle == InitPage

(***************************************************************************)
(* parseDeckList and the deck text of displayDeck, applied to reply texts  *)
(***************************************************************************)
InitParse ==
    /\ InitApp
    /\ dbRows = <<>>
    /\ exchange = NoExchange
    /\ PageIdle
    /\ InitRequests
    /\ replyText \in ReplyTexts
    /\ parsed = NoDeck
    /\ reparsed = NoDeck
    /\ filtered = NoFilter
    /\ cardListText = <<>>
    /\ pstep = "text"

\* const parsed = parseDeckList(assistantMessage)
Parse ==
    /\ pstep = "text"
    /\ parsed' = parseDeckList(replyText)
    /\ pstep' = "parsed"
    /\ UNCHANGED <<appVars, pageVars, requestVars, dbRows, exchange, replyText, reparsed, filtered,
                   cardListText>>

\* if (parsed.deck) displayDeck(parsed): currentDeckText = text.trim()
Render ==
    /\ pstep = "parsed"
    /\ parsed.deck # Null
    /\ currentDeckText' = BuildDeckText(parsed)
    /\ pstep' = "rendered"
    /\ UNCHANGED <<cardNames, cardDataMap, selectedColors, conversationHistory,
                   dbLoaded, loadAlerted, pageVars, requestVars, dbRows, exchange, replyText, parsed, reparsed,
                   filtered, cardListText>>

\* the deck text read back by the parser
Reparse ==
    /\ pstep = "rendered"
    /\ reparsed' = parseDeckList(currentDeckText)
    /\ pstep' = "reparsed"
    /\ UNCHANGED <<appVars, pageVars, requestVars, dbRows, exchange, replyText, parsed, filtered,
                   cardListText>>

NextParse == Parse \/ Render \/ Reparse

SpecParse == InitParse /\ [][NextParse]_vars

(***************************************************************************)
(* getFilteredCardList and buildCardListText, applied to catalogs          *)
(***************************************************************************)
InitFilter ==
    /\ \E rows \in Catalogs :
          /\ dbRows = rows
          /\ exchange = NoExchange
          /\ cardNames = NamesOfRows(rows)
          /\ cardDataMap = MapOfRows(rows)
    /\ selectedColors \in SUBSET AllColors
    /\ conversationHistory = <<>>
    /\ currentDeckText = <<>>
    /\ dbLoaded = TRUE
    /\ loadAlerted = FALSE
    /\ PageIdle
    /\ InitRequests
    /\ replyText = <<>>
    /\ parsed = NoDeck
    /\ reparsed = NoDeck
    /\ filtered = NoFilter
    /\ cardListText = <<>>
    /\ pstep = "catalog"

\* const filteredNames = getFilteredCardList()
Filter ==
    /\ pstep = "catalog"
    /\ filtered' = getFilteredCardList(cardNames, cardDataMap, selectedColors)
    /\ pstep' = "filtered"
    /\ UNCHANGED <<appVars, pageVars, requestVars, dbRows, exchange, replyText, parsed, reparsed,
                   cardListText>>

\* const cardListText = buildCardListText(filteredNames)
Build ==
    /\ pstep = "filtered"
    /\ ~filtered.threw
    /\ cardListText' = buildCardListText(filtered.names, cardDataMap)
    /\ pstep' = "built"
    /\ UNCHANGED <<appVars, pageVars, requestVars, dbRows, exchange, replyText, parsed, reparsed,
                   filtered>>

NextFilter == Filter \/ Build

SpecFilter == InitFilter /\ [][NextFilter]_vars

(***************************************************************************)
(* computeAndDisplayStats, applied to main decks and catalogs              *)
(***************************************************************************)
InitStats ==
    /\ \E rows \in Catalogs :
          /\ dbRows = rows
          /\ exchange = NoExchange
          /\ cardNames = NamesOfRows(rows)
          /\ cardDataMap = MapOfRows(rows)
    /\ selectedColors = {}
    /\ conversationHistory = <<>>
    /\ currentDeckText = <<>>
    /\ dbLoaded = TRUE
    /\ loadAlerted = FALSE
    /\ PageIdle
    /\ InitRequests
    /\ replyText = <<>>
    /\ \E d \in MainDecks : parsed = [deck |-> d, sideboard |-> Null, explanation |-> <<>>]
    /\ reparsed = NoDeck
    /\ filtered = NoFilter
    /\ cardListText = <<>>
    /\ pstep = "deck"

\* computeAndDisplayStats(parsed)
Stats ==
    /\ pstep = "deck"
    /\ LET r == computeAndDisplayStats(parsed, cardDataMap) IN
          /\ stats' = IF r.threw THEN stats ELSE r.shown
          /\ pstep' = IF r.threw THEN "threw" ELSE "stats"
    /\ UNCHANGED <<appVars, phase, apiKey, generateBtnDisabled, chatSendBtnDisabled,
                   chatInputDisabled, chatInputValue, loadingHidden, errorShown,
                   chatMessages, deckOutput, sideboardOutput, sideboardHidden,
                   requestVars, dbRows, exchange, replyText, parsed, reparsed, filtered, cardListText>>

NextStats == Stats

SpecStats == InitStats /\ [][NextStats]_vars

(***************************************************************************)
(* Properties of parseDeckList and of the deck text                        *)
(***************************************************************************)
Range(s) == {s[i] : i \in 1..Len(s)}

\* every count of the entries prints as plain decimal digits (is below 1e21)
PlainCounts(entries) ==
    \A i \in 1..Len(entries) : Len(entries[i].count) <= MaxPlainDigits

\* C1: parseDeckList applied to the scenario reply "Deck\n4 Mountain\n2 Shock\n\n
\* Sideboard\n1 Negate\n\nThis deck is aggressive." returns the two main-deck
\* entries, the one sideboard entry and the explanation "This deck is
\* aggressive.": the prose line after the sideboard entries is the explanation.
C1_ScenarioParse ==
    (pstep # "text" /\ replyText = ScenarioText) =>
        /\ parsed.deck = <<[count |-> <<"4">>, name |-> Mountain],
                           [count |-> <<"2">>, name |-> Shock]>>
        /\ parsed.sideboard = <<[count |-> <<"1">>, name |-> Negate]>>
        /\ parsed.explanation = Aggressive

IdentityOf(name) == Range(cardDataMap[name].colorIdentity.items)

IsBasicLand(name) == Includes(cardDataMap[name].typeLine, BasicLand)

\* the three ways the claim allows a name to be returned under selection S
AllowedBy(name, S) ==
    \/ IsBasicLand(name)
    \/ IdentityOf(name) \subseteq (S \ {"C"})
    \/ IdentityOf(name) = {} /\ ("C" \in S \/ S \ {"C"} = {})

\* C5 as stated: for all selections S and catalogs, every returned name is a
\* basic land, or has a colour identity within S minus 'C', or is colourless
\* and (S contains 'C' or S minus 'C' is empty).
C5_ReturnedAllowedAnySelection ==
    pstep \in {"filtered", "built"} =>
        \A i \in 1..Len(filtered.names) : AllowedBy(filtered.names[i], selectedColors)

\* C5, amended: for all non-empty selections S and catalogs, every returned
\* name is a basic land, or has a colour identity within S minus 'C', or is
\* colourless and (S contains 'C' or S minus 'C' is empty).
C5_ReturnedAllowed ==
    (pstep \in {"filtered", "built"} /\ selectedColors # {}) =>
        \A i \in 1..Len(filtered.names) : AllowedBy(filtered.names[i], selectedColors)

\* a coloured card that is no basic land was returned under a selection
C5_Witness ==
    /\ pstep = "filtered"
    /\ selectedColors # {}
    /\ \E i \in 1..Len(filtered.names) :
          /\ ~IsBasicLand(filtered.names[i])
          /\ IdentityOf(filtered.names[i]) # {}
    /\ Len(filtered.names) < Len(cardNames)

\* the rules of the claim: is the card of this name to be returned under S
RuleIncludes(name, S) ==
    IF S = {} THEN TRUE
    ELSE IF IsBasicLand(name) THEN TRUE
    ELSE IF IdentityOf(name) # {} THEN IdentityOf(name) \subseteq (S \ {"C"})
    ELSE "C" \in S \/ S \ {"C"} = {}

\* the names of the catalog from index k on that the rules include, in order
RECURSIVE RuleNamesFrom(_, _)
RuleNamesFrom(k, S) ==
    IF k > Len(cardNames) THEN <<>>
    ELSE (IF RuleIncludes(cardNames[k], S) THEN <<cardNames[k]>> ELSE <<>>)
         \o RuleNamesFrom(k + 1, S)

IsPrefix(p, s) == Len(p) <= Len(s) /\ SubSeq(s, 1, Len(p)) = p

\* the type named by a header line "--- <Type>s (n) ---", "none" otherwise
HeaderType(line) ==
    IF \E t \in Range(typeOrder) : IsPrefix(<<"-", "-", "-", " ">> \o TypeChars[t] \o <<"s", " ", "(">>, line)
    THEN CHOOSE t \in Range(typeOrder) : IsPrefix(<<"-", "-", "-", " ">> \o TypeChars[t] \o <<"s", " ", "(">>, line)
    ELSE "none"

\* the type of the last header line above line i of the text
RECURSIVE BlockOf(_, _)
BlockOf(lines, i) ==
    IF i < 1 THEN "none"
    ELSE IF HeaderType(lines[i]) # "none" THEN HeaderType(lines[i])
    ELSE BlockOf(lines, i - 1)

\* the categories under which the text lists the card of this name
CategoriesOf(name) ==
    LET lines == Split(cardListText, "\n") IN
    {BlockOf(lines, i) : i \in {j \in 1..Len(lines) : IsPrefix(name \o <<" ", "|", " ">>, lines[j])}}

\* the first keyword of the ordered list that the type line contains
RECURSIVE FirstKeyword(_, _)
FirstKeyword(tl, order) ==
    IF order = <<>> THEN "Other"
    ELSE IF Includes(tl, TypeChars[Head(order)]) THEN Head(order)
    ELSE FirstKeyword(tl, Tail(order))

\* the keyword order of the claim
ClaimedKeywordOrder ==
    <<"Creature", "Instant", "Sorcery", "Enchantment", "Artifact", "Planeswalker",
      "Battle", "Land">>

\* the keyword order with Land ahead of Battle
LandFirstKeywordOrder ==
    <<"Creature", "Instant", "Sorcery", "Enchantment", "Artifact", "Planeswalker",
      "Land", "Battle">>

\* C9 as stated: each card is listed in exactly one category, the first keyword
\* of Creature, Instant, Sorcery, Enchantment, Artifact, Planeswalker, Battle,
\* Land that its type line contains, "Other" when none matches.
C9_FirstKeywordBattleFirst ==
    pstep = "built" =>
        \A i \in 1..Len(filtered.names) :
            CategoriesOf(filtered.names[i]) =
                {FirstKeyword(cardDataMap[filtered.names[i]].typeLine, ClaimedKeywordOrder)}

\* C9, amended: each card is listed in exactly one category, the first keyword
\* of Creature, Instant, Sorcery, Enchantment, Artifact, Planeswalker, Land,
\* Battle that its type line contains, "Other" when none matches; a type line
\* containing both "Battle" and "Land" (and no earlier keyword) is listed as
\* Land.
C9_FirstKeyword ==
    pstep = "built" =>
        \A i \in 1..Len(filtered.names) :
            CategoriesOf(filtered.names[i]) =
                {FirstKeyword(cardDataMap[filtered.names[i]].typeLine, LandFirstKeywordOrder)}

\* a card whose type line holds both Battle and Land was listed, along with a
\* card of another category
C9_Witness ==
    /\ pstep = "built"
    /\ \E i \in 1..Len(filtered.names) :
          /\ Includes(cardDataMap[filtered.names[i]].typeLine, TypeChars["Battle"])
          /\ Includes(cardDataMap[filtered.names[i]].typeLine, TypeChars["Land"])
          /\ CategoriesOf(filtered.names[i]) = {"Land"}
    /\ \E i \in 1..Len(filtered.names) : CategoriesOf(filtered.names[i]) = {"Creature"}

(***************************************************************************)
(* Properties of computeAndDisplayStats                                    *)
(***************************************************************************)
RECURSIVE SumCounts(_)
SumCounts(entries) ==
    IF entries = <<>> THEN 0 ELSE NumVal(Head(entries).count) + SumCounts(Tail(entries))

RECURSIVE SumSeq(_)
SumSeq(s) == IF s = <<>> THEN 0 ELSE Head(s) + SumSeq(Tail(s))

\* C7: the total equals the sum of count over all main-deck entries, entries
\* whose name is not in the catalog included, and the name of every such entry
\* is in the unrecognized list.
C7_TotalCountsEveryEntry ==
    pstep \in {"stats", "threw"} =>
        /\ pstep = "stats"
        /\ stats.totalCards = SumCounts(parsed.deck)
        /\ \A i \in 1..Len(parsed.deck) :
              parsed.deck[i].name \notin DOMAIN cardDataMap =>
                  parsed.deck[i].name \in Range(stats.unrecognized)

\* C8: for every main deck and catalog the curve counts of the eight buckets
\* sum to totalCards - totalLands.
C8_CurveSumIsNonLands ==
    pstep \in {"stats", "threw"} =>
        /\ pstep = "stats"
        /\ SumSeq(stats.curve) = stats.totalCards - stats.totalLands

(***************************************************************************)
(* The page: init, the event handlers and callChatGPT                      *)
(*                                                                         *)
(* A handler runs to its first await in one step.  The only await of       *)
(* generateDeck and sendChatMessage that lets other handlers in is the     *)
(* fetch of callChatGPT; the steps after it (response.json(), the push,    *)
(* the parse, the finally block) change the page in one go when the fetch  *)
(* settles.  The literal text of the prompts is abbreviated; the prompt of *)
(* generateDeck is modelled by its catalog-dependent part, cardListText.   *)
(***************************************************************************)
\* most requests issued in a run
MaxRequests == 2

\* if (key.length > 10)
KeyMinLength == 10

\* values typed into #api-key
KeyPool == {<<>>, <<"s", "k", "-", "s", "h", "o", "r", "t">>, <<" ", "s", "k", "-", "0", "1", "2", "3", "4", "5", "6", "7", "8", "9">>}

\* the colour buttons clicked
ColorButtons == {"R"}

\* values typed into #chat-input
ChatTexts == {<<>>, <<" ", "A", "d", "d", " ", "O", "p", "t">>}

\* the rows of the catalog the page loads
PageRows == RowsAt({1, 5}, 1)

\* data.choices[0].message.content of the replies of the service
LineConstructor == <<"1", " ", "c", "o", "n", "s", "t", "r", "u", "c", "t", "o", "r">>

ServiceReplies ==
    {ScenarioText, Join(<<LineDeck, LineShock>>, "\n"), LineProse,
     Join(<<LineDeck, LineConstructor>>, "\n")}

SYSTEM_PROMPT == <<"S", "Y", "S", "T", "E", "M", "_", "P", "R", "O", "M", "P", "T">>

Message(role, content) == [role |-> role, content |-> content]

Init ==
    /\ InitApp
    /\ InitPage
    /\ InitRequests
    /\ InitPipe

\* init() with loadDatabase storing the rows, then hideLoading and
\* setupEventListeners
InitLoaded ==
    /\ phase = "loading"
    /\ \E rows \in {PageRows, <<>>} :
          \* if (results.length > 0) { ... }
          /\ cardNames' = NamesOfRows(rows)
          /\ cardDataMap' = MapOfRows(rows)
    /\ dbLoaded' = TRUE
    /\ loadingHidden' = TRUE
    /\ phase' = "ready"
    /\ UNCHANGED <<selectedColors, conversationHistory, currentDeckText, loadAlerted,
                   apiKey, generateBtnDisabled, chatSendBtnDisabled,
                   chatInputDisabled, chatInputValue, errorShown, chatMessages,
                   deckOutput, sideboardOutput, sideboardHidden, stats,
                   requestVars, pipeVars>>

\* init() with loadDatabase catching an error: of initSqlJs or the fetch of
\* the file (db stays null) or of db.exec (db is set); init goes on
InitLoadFailed ==
    /\ phase = "loading"
    /\ dbLoaded' \in BOOLEAN
    /\ loadAlerted' = TRUE
    /\ loadingHidden' = TRUE
    /\ phase' = "ready"
    /\ UNCHANGED <<cardNames, cardDataMap, selectedColors, conversationHistory,
                   currentDeckText, apiKey, generateBtnDisabled,
                   chatSendBtnDisabled, chatInputDisabled, chatInputValue,
                   errorShown, chatMessages, deckOutput, sideboardOutput,
                   sideboardHidden, stats, requestVars, pipeVars>>

\* the input event of #api-key
onApiKeyChange ==
    /\ phase = "ready"
    /\ \E v \in KeyPool :
          /\ v # apiKey
          /\ apiKey' = v
          /\ generateBtnDisabled' = ~(Len(Trim(v)) > KeyMinLength)
    /\ UNCHANGED <<appVars, phase, chatSendBtnDisabled, chatInputDisabled,
                   chatInputValue, loadingHidden, errorShown, chatMessages,
                   deckOutput, sideboardOutput, sideboardHidden, stats,
                   requestVars, pipeVars>>

\* the click listener of a .color-btn
ColorClick ==
    /\ phase = "ready"
    /\ \E color \in ColorButtons :
          selectedColors' = IF color \in selectedColors
                            THEN selectedColors \ {color}
                            ELSE selectedColors \cup {color}
    /\ UNCHANGED <<cardNames, cardDataMap, conversationHistory, currentDeckText,
                   dbLoaded, loadAlerted, pageVars, requestVars, pipeVars>>

\* typing into #chat-input
ChatInputEdit ==
    /\ phase = "ready"
    /\ ~chatInputDisabled
    /\ \E v \in ChatTexts : v # chatInputValue /\ chatInputValue' = v
    /\ UNCHANGED <<appVars, phase, apiKey, generateBtnDisabled, chatSendBtnDisabled,
                   chatInputDisabled, loadingHidden, errorShown, chatMessages,
                   deckOutput, sideboardOutput, sideboardHidden, stats,
                   requestVars, pipeVars>>

\* callChatGPT up to the fetch: the controls go off and a request goes out
callChatGPT(resets) ==
    /\ generateBtnDisabled' = TRUE
    /\ chatSendBtnDisabled' = TRUE
    /\ chatInputDisabled' = TRUE
    /\ loadingHidden' = FALSE
    /\ nextId' = nextId + 1
    /\ epoch' = epoch + resets
    /\ inflight' = inflight \cup {[id |-> nextId + 1, epoch |-> epoch + resets]}
    /\ UNCHANGED processed

\* generateDeck, the click listener of generateBtn
generateDeck ==
    IF Trim(apiKey) = <<>> \/ selectedColors = {}
    THEN \* showError(...); return
         /\ errorShown' = TRUE
         /\ UNCHANGED <<conversationHistory, chatMessages, generateBtnDisabled,
                        chatSendBtnDisabled, chatInputDisabled, loadingHidden,
                        requestVars>>
    ELSE LET filteredNames == getFilteredCardList(cardNames, cardDataMap, selectedColors)
         IN
         IF filteredNames.threw
         THEN \* the TypeError leaves generateDeck after hideError()
              /\ errorShown' = FALSE
              /\ UNCHANGED <<conversationHistory, chatMessages, generateBtnDisabled,
                             chatSendBtnDisabled, chatInputDisabled, loadingHidden,
                             requestVars>>
         ELSE /\ errorShown' = FALSE
              /\ conversationHistory' =
                    <<Message("system", SYSTEM_PROMPT),
                      Message("user", buildCardListText(filteredNames.names, cardDataMap))>>
              /\ chatMessages' = <<Message("user", <<"G", "e", "n", "e", "r", "a", "t", "e">>)>>
              /\ callChatGPT(1)

GenerateClick ==
    /\ phase = "ready"
    /\ ~generateBtnDisabled
    /\ nextId < MaxRequests
    /\ generateDeck
    /\ UNCHANGED <<cardNames, cardDataMap, selectedColors, currentDeckText, dbLoaded,
                   loadAlerted, phase, apiKey, chatInputValue, deckOutput,
                   sideboardOutput, sideboardHidden, stats, pipeVars>>

\* sendChatMessage, the listener of chatSendBtn's click and of Enter in chatInput
sendChatMessage ==
    LET text == Trim(chatInputValue) IN
    IF text = <<>>
    THEN UNCHANGED <<conversationHistory, chatInputValue, errorShown, chatMessages,
                     generateBtnDisabled, chatSendBtnDisabled, chatInputDisabled,
                     loadingHidden, requestVars>>
    ELSE IF Trim(apiKey) = <<>>
    THEN /\ errorShown' = TRUE
         /\ UNCHANGED <<conversationHistory, chatInputValue, chatMessages,
                        generateBtnDisabled, chatSendBtnDisabled, chatInputDisabled,
                        loadingHidden, requestVars>>
    ELSE /\ chatInputValue' = <<>>
         /\ chatMessages' = Append(chatMessages, Message("user", text))
         /\ conversationHistory' = Append(conversationHistory, Message("user", text))
         /\ callChatGPT(0)
         /\ UNCHANGED errorShown

ChatSendClick ==
    /\ phase = "ready"
    /\ ~chatSendBtnDisabled
    /\ nextId < MaxRequests
    /\ sendChatMessage
    /\ UNCHANGED <<cardNames, cardDataMap, selectedColors, currentDeckText, dbLoaded,
                   loadAlerted, phase, apiKey, deckOutput, sideboardOutput,
                   sideboardHidden, stats, pipeVars>>

ChatEnterKey ==
    /\ phase = "ready"
    /\ ~chatInputDisabled
    /\ nextId < MaxRequests
    /\ sendChatMessage
    /\ UNCHANGED <<cardNames, cardDataMap, selectedColors, currentDeckText, dbLoaded,
                   loadAlerted, phase, apiKey, deckOutput, sideboardOutput,
                   sideboardHidden, stats, pipeVars>>

\* parsed.deck.map(e => `${e.count} ${e.name}`).join('\n')
EntriesText(entries) == Join([i \in 1..Len(entries) |-> EntryLine(entries[i])], "\n")

\* displayDeck(parsed)
displayDeck(p) ==
    /\ currentDeckText' = BuildDeckText(p)
    /\ deckOutput' = EntriesText(p.deck)
    /\ IF p.sideboard # Null /\ Len(p.sideboard) > 0
       THEN /\ sideboardOutput' = EntriesText(p.sideboard)
            /\ sideboardHidden' = FALSE
       ELSE /\ sideboardHidden' = TRUE
            /\ UNCHANGED sideboardOutput
    /\ stats' = IF computeAndDisplayStats(p, cardDataMap).threw THEN stats
                 ELSE computeAndDisplayStats(p, cardDataMap).shown

\* displayDeck leaves by the TypeError of computeAndDisplayStats, to the catch
\* block of callChatGPT
displayDeckThrows(p) == computeAndDisplayStats(p, cardDataMap).threw

\* addChatMessage('system', `Error: ${err.message}`)
ErrorMessage == Message("system", <<"E", "r", "r", "o", "r">>)

\* the finally block of callChatGPT
callChatGPTFinally ==
    /\ loadingHidden' = TRUE
    /\ generateBtnDisabled' = (Trim(apiKey) = <<>>)
    /\ chatSendBtnDisabled' = FALSE
    /\ chatInputDisabled' = FALSE

\* the entry of `processed` for request r; reply: the content of the reply
Handled(r, ok, reply) ==
    [id |-> r.id, ok |-> ok, requestEpoch |-> r.epoch, historyEpoch |-> epoch,
     reply |-> reply]

\* ServiceReply with the deck view cleared when the reply holds no deck
ServiceReplyClearsView ==
    /\ \E r \in inflight, assistantMessage \in ServiceReplies :
          /\ inflight' = inflight \ {r}
          /\ processed' = Append(processed, Handled(r, TRUE, assistantMessage))
          /\ conversationHistory' =
                Append(conversationHistory, Message("assistant", assistantMessage))
          /\ IF parseDeckList(assistantMessage).deck # Null
             THEN /\ displayDeck(parseDeckList(assistantMessage))
                  /\ chatMessages' =
                        IF displayDeckThrows(parseDeckList(assistantMessage))
                        THEN chatMessages
                                \o <<Message("assistant", assistantMessage), ErrorMessage>>
                        ELSE Append(chatMessages, Message("assistant", assistantMessage))
             ELSE /\ chatMessages' =
                        Append(chatMessages, Message("assistant", assistantMessage))
                  /\ currentDeckText' = <<>>
                  /\ deckOutput' = <<>>
                  /\ UNCHANGED <<sideboardOutput, sideboardHidden, stats>>
    /\ callChatGPTFinally
    /\ UNCHANGED <<cardNames, cardDataMap, selectedColors, dbLoaded, loadAlerted,
                   phase, apiKey, chatInputValue, errorShown, nextId, epoch, pipeVars>>

\* callChatGPT after the fetch resolved with a 2xx response
ServiceReply ==
    /\ \E r \in inflight, assistantMessage \in ServiceReplies :
          /\ inflight' = inflight \ {r}
          /\ processed' = Append(processed, Handled(r, TRUE, assistantMessage))
          /\ conversationHistory' =
                Append(conversationHistory, Message("assistant", assistantMessage))
          /\ IF parseDeckList(assistantMessage).deck # Null
             THEN /\ displayDeck(parseDeckList(assistantMessage))
                  /\ chatMessages' =
                        IF displayDeckThrows(parseDeckList(assistantMessage))
                        THEN chatMessages
                                \o <<Message("assistant", assistantMessage), ErrorMessage>>
                        ELSE Append(chatMessages, Message("assistant", assistantMessage))
             ELSE /\ chatMessages' =
                        Append(chatMessages, Message("assistant", assistantMessage))
                  /\ UNCHANGED <<currentDeckText, deckOutput, sideboardOutput,
                                 sideboardHidden, stats>>
    /\ callChatGPTFinally
    /\ UNCHANGED <<cardNames, cardDataMap, selectedColors, dbLoaded, loadAlerted,
                   phase, apiKey, chatInputValue, errorShown, nextId, epoch, pipeVars>>

\* ServiceError with the deck text reset by the catch block
ServiceErrorResetsDeck ==
    /\ \E r \in inflight :
          /\ inflight' = inflight \ {r}
          /\ processed' = Append(processed, Handled(r, FALSE, <<>>))
    /\ chatMessages' = Append(chatMessages, ErrorMessage)
    /\ currentDeckText' = <<>>
    /\ callChatGPTFinally
    /\ UNCHANGED <<cardNames, cardDataMap, selectedColors, conversationHistory,
                   dbLoaded, loadAlerted, phase, apiKey, chatInputValue, errorShown,
                   deckOutput, sideboardOutput, sideboardHidden, stats, nextId, epoch,
                   pipeVars>>

\* callChatGPT after the fetch rejected or resolved with a status that is not 2xx
ServiceError ==
    /\ \E r \in inflight :
          /\ inflight' = inflight \ {r}
          /\ processed' = Append(processed, Handled(r, FALSE, <<>>))
    /\ chatMessages' = Append(chatMessages, ErrorMessage)
    /\ callChatGPTFinally
    /\ UNCHANGED <<appVars, phase, apiKey, chatInputValue, errorShown, deckOutput,
                   sideboardOutput, sideboardHidden, stats, nextId, epoch, pipeVars>>

Next ==
    \/ InitLoaded
    \/ InitLoadFailed
    \/ onApiKeyChange
    \/ ColorClick
    \/ ChatInputEdit
    \/ GenerateClick
    \/ ChatSendClick
    \/ ChatEnterKey
    \/ ServiceReply
    \/ ServiceError

Spec == Init /\ [][Next]_vars

(***************************************************************************)
(* Properties of the page                                                  *)
(***************************************************************************)
\* C3: at most one text-generation request is in flight at any time, and while
\* one is, the generate button, the chat send button and the chat input are
\* disabled, so that no second call to the service can start.
C3_OneRequestInFlight ==
    /\ Cardinality(inflight) <= 1
    /\ inflight # {} =>
          (generateBtnDisabled /\ chatSendBtnDisabled /\ chatInputDisabled)

\* C4: replies are handled in the order their requests were issued, and a reply
\* is never appended to a conversation history that generateDeck reset after
\* the reply's request was issued.
C4_RepliesInIssueOrder ==
    /\ \A i, j \in 1..Len(processed) :
          (i < j /\ processed[i].ok /\ processed[j].ok) =>
              processed[i].id < processed[j].id
    /\ \A i \in 1..Len(processed) :
          processed[i].ok => processed[i].requestEpoch = processed[i].historyEpoch

\* C10: after loadDatabase caught a load error, generateDeck never builds a
\* request from the catalog nor sends one to the service.
C10_NoGenerationAfterLoadFailure ==
    loadAlerted => (epoch = 0 /\ \A r \in inflight : r.epoch = 0)


(***************************************************************************)
(* Further properties of parseDeckList: sections, entries, explanation     *)
(***************************************************************************)
\* the lines of the reply, as the claims speak of them
ReplyLines == Split(replyText, "\n")

LineIsDeckHeader(l) == FoldCase(Trim(l)) = <<"d", "e", "c", "k">>

LineIsSideboardHeader(l) == FoldCase(Trim(l)) = <<"s", "i", "d", "e", "b", "o", "a", "r", "d">>

LineIsHeader(l) == LineIsDeckHeader(l) \/ LineIsSideboardHeader(l)

\* the line has the shape <count>[x] <name>
LineHasEntryShape(l) == MatchEntry(Trim(l)).ok

\* the section line i is read in: that of the last header line before it
SectionAt(lines, i) ==
    LET hs == {j \in 1..(i - 1) : LineIsHeader(lines[j])} IN
    IF hs = {} THEN "null"
    ELSE LET last == CHOOSE j \in hs : \A k \in hs : k <= j IN
         IF LineIsDeckHeader(lines[last]) THEN "deck" ELSE "sideboard"

\* the lines recorded as main-deck entries
MainEntryLines(lines) ==
    {i \in 1..Len(lines) : LineHasEntryShape(lines[i]) /\ SectionAt(lines, i) = "deck"}

\* C13: parseDeckList returns the failed result exactly when no entry line was
\* recorded while in the deck section; a reply without a "deck" line (trimmed,
\* case-insensitive) always fails to parse, whatever else it contains.
C13_FailsIffNoDeckEntry ==
    pstep # "text" =>
        /\ (parsed = NoDeck) <=> (MainEntryLines(ReplyLines) = {})
        /\ (\A i \in 1..Len(ReplyLines) : ~LineIsDeckHeader(ReplyLines[i]))
              => parsed = NoDeck

\* a reply with a Sideboard section holding an entry and no "Deck" line failed
C13_Witness ==
    /\ pstep = "parsed"
    /\ parsed = NoDeck
    /\ \A i \in 1..Len(ReplyLines) : ~LineIsDeckHeader(ReplyLines[i])
    /\ \E i \in 1..Len(ReplyLines) :
          LineHasEntryShape(ReplyLines[i]) /\ SectionAt(ReplyLines, i) = "sideboard"

\* C17: every entry parseDeckList produces, in the main deck and in the
\* sideboard, has a count that is a positive integer (count >= 1), for every
\* reply text.
C17_CountsPositive ==
    pstep # "text" =>
        \A e \in Range(parsed.deck) \cup Range(parsed.sideboard) : e.count # <<"0">>

\* the line is made of '-' and '=' characters only
LineIsDecorative(l) ==
    Trim(l) # <<>> /\ \A k \in 1..Len(Trim(l)) : Trim(l)[k] \in {"-", "="}

\* the lines that may start the explanation: non-empty, no header, not of the
\* entry shape, not decorative, read outside the sideboard section after a
\* main-deck entry was recorded
StartLines(lines) ==
    {i \in 1..Len(lines) :
        /\ Trim(lines[i]) # <<>>
        /\ ~LineIsHeader(lines[i])
        /\ ~LineHasEntryShape(lines[i])
        /\ ~LineIsDecorative(lines[i])
        /\ SectionAt(lines, i) # "sideboard"
        /\ \E j \in MainEntryLines(lines) : j < i}

FirstOf(S) == CHOOSE i \in S : \A k \in S : i <= k

\* C20: the explanation starts at, and only at, the first line that is
\* non-empty, no header, not of the entry shape, not decorative and read after
\* a main-deck entry while the section is not the sideboard; without such a
\* line the explanation is empty.
C20_ExplanationStart ==
    (pstep # "text" /\ parsed # NoDeck) =>
        IF StartLines(ReplyLines) = {} THEN parsed.explanation = <<>>
        ELSE /\ parsed.explanation # <<>>
             /\ Split(parsed.explanation, "\n")[1]
                   = Trim(ReplyLines[FirstOf(StartLines(ReplyLines))])

\* a decorative line after the deck entry did not start the explanation, the
\* prose line after it did
C20_Witness ==
    /\ pstep = "parsed"
    /\ parsed # NoDeck
    /\ parsed.explanation = LineProse
    /\ \E i \in 1..Len(ReplyLines) :
          /\ LineIsDecorative(ReplyLines[i])
          /\ FirstOf(StartLines(ReplyLines)) = i + 1
          /\ \E j \in MainEntryLines(ReplyLines) : j < i

\* the trimmed lines at the indices of I from i on, in order
RECURSIVE KeptFrom(_, _, _)
KeptFrom(lines, i, I) ==
    IF i > Len(lines) THEN <<>>
    ELSE (IF i \in I THEN <<Trim(lines[i])>> ELSE <<>>) \o KeptFrom(lines, i + 1, I)

LineIsNonEmpty(l) == Trim(l) # <<>>

\* a non-empty line that is neither a header nor of the entry shape
LineIsFreeText(l) ==
    LineIsNonEmpty(l) /\ ~LineIsHeader(l) /\ ~LineHasEntryShape(l)

\* C19 as stated: once the explanation has started, that line and every later
\* non-empty line of the reply is appended to it, entry-shaped lines and
\* header lines included.
C19_EveryLaterLine ==
    (pstep # "text" /\ parsed # NoDeck /\ StartLines(ReplyLines) # {}) =>
        parsed.explanation =
            Join(KeptFrom(ReplyLines, FirstOf(StartLines(ReplyLines)),
                          {i \in 1..Len(ReplyLines) : LineIsNonEmpty(ReplyLines[i])}),
                 "\n")

\* C19, amended: once the explanation has started, that line and every later
\* non-empty line that is neither a header line nor of the entry shape is
\* appended to it, decorative lines and lines of the sideboard section
\* included; later header lines and entry-shaped lines are not.
C19_LaterFreeText ==
    (pstep # "text" /\ parsed # NoDeck /\ StartLines(ReplyLines) # {}) =>
        parsed.explanation =
            Join(KeptFrom(ReplyLines, FirstOf(StartLines(ReplyLines)),
                          {i \in 1..Len(ReplyLines) : LineIsFreeText(ReplyLines[i])}),
                 "\n")

\* after the line that started the explanation an entry-shaped line was read:
\* it was recorded as an entry and is not in the explanation
C19_Witness ==
    /\ pstep = "parsed"
    /\ parsed # NoDeck
    /\ parsed.explanation = LineProse
    /\ Len(parsed.deck) = 2
    /\ \E i \in 1..Len(ReplyLines) :
          /\ LineHasEntryShape(ReplyLines[i])
          /\ FirstOf(StartLines(ReplyLines)) < i

(***************************************************************************)
(* loadDatabase: the row loop, applied to the rows of db.exec              *)
(***************************************************************************)
InitLoad ==
    /\ InitApp
    /\ PageIdle
    /\ InitRequests
    /\ dbRows \in LoadedRows
    /\ exchange = NoExchange
    /\ replyText = <<>>
    /\ parsed = NoDeck
    /\ reparsed = NoDeck
    /\ filtered = NoFilter
    /\ cardListText = <<>>
    /\ pstep = "rows"

\* cardNames = []; cardDataMap = {}; for (const row of rows) { ... }
Load ==
    /\ pstep = "rows"
    /\ cardNames' = NamesOfRows(dbRows)
    /\ cardDataMap' = MapOfRows(dbRows)
    /\ dbLoaded' = TRUE
    /\ pstep' = "loaded"
    /\ UNCHANGED <<selectedColors, conversationHistory, currentDeckText, loadAlerted,
                   pageVars, requestVars, dbRows, exchange, replyText, parsed, reparsed,
                   filtered, cardListText>>

NextLoad == Load

SpecLoad == InitLoad /\ [][NextLoad]_vars

\* C15: after a catalog load the name list holds no name twice and each name
\* maps to one record, also when several rows have the same name.
C15_OneCardPerName ==
    pstep = "loaded" =>
        /\ \A i, j \in 1..Len(cardNames) : cardNames[i] = cardNames[j] => i = j
        /\ Range(cardNames) = DOMAIN cardDataMap

\* JSON.parse returned an array
IsCollection(v) == v.kind = "array"

\* C16: a malformed colorIdentity or keywords field never aborts the load:
\* every row is in the catalog, the colorIdentity and the keywords of every
\* Card are collections, empty ones where the text is no array, and the other
\* fields are those of the row.
C16_MalformedFieldsAreEmpty ==
    pstep = "loaded" =>
        /\ Len(cardNames) = Len(dbRows)
        /\ \A i \in 1..Len(dbRows) :
              LET card == cardDataMap[dbRows[i].name] IN
              /\ IsCollection(card.colorIdentity)
              /\ IsCollection(card.keywords)

(***************************************************************************)
(* Properties of callChatGPT after the fetch settled                       *)
(***************************************************************************)
\* the step handles a settled request: one more entry in `processed`
HandlesRequest == Len(processed') = Len(processed) + 1

\* the entry of the request the step handles
HandledNow == processed'[Len(processed')]

\* C11: when the service call fails, no deck is displayed from it: the deck
\* text, the deck and sideboard views and the stats stay as they are, nothing is
\* appended to conversationHistory, and the chat gets a system message.
C11_FailureDisplaysNothing ==
    [][(HandlesRequest /\ ~HandledNow.ok) =>
          /\ UNCHANGED <<currentDeckText, deckOutput, sideboardOutput,
                         sideboardHidden, stats, conversationHistory>>
          /\ chatMessages' = Append(chatMessages, [role |-> "system",
                                                   content |-> ErrorMessage.content])]_vars

\* a call failed after a deck had been displayed, and the deck is still there
C11_Witness ==
    /\ Len(processed) = 2
    /\ processed[1].ok /\ ~processed[2].ok
    /\ currentDeckText # <<>>
    /\ chatMessages[Len(chatMessages)].role = "system"

\* C14: when a successful reply holds no deck, the raw reply is appended to
\* the chat and to conversationHistory as the assistant message, and the deck
\* text, the deck and sideboard views and the stats stay as they are.
C14_UnparsedReplyIsChatOnly ==
    [][(HandlesRequest /\ HandledNow.ok /\ parseDeckList(HandledNow.reply) = NoDeck) =>
          /\ conversationHistory' =
                Append(conversationHistory,
                       [role |-> "assistant", content |-> HandledNow.reply])
          /\ chatMessages' =
                Append(chatMessages, [role |-> "assistant", content |-> HandledNow.reply])
          /\ UNCHANGED <<currentDeckText, deckOutput, sideboardOutput,
                         sideboardHidden, stats>>]_vars

\* a reply without a deck was handled after a deck had been displayed
C14_Witness ==
    /\ Len(processed) = 2
    /\ processed[1].ok /\ parseDeckList(processed[1].reply) # NoDeck
    /\ processed[2].ok /\ parseDeckList(processed[2].reply) = NoDeck
    /\ currentDeckText # <<>>
    /\ conversationHistory[Len(conversationHistory)].content = processed[2].reply

\* C12 (the part a finite run refutes): from the start of callChatGPT until
\* the request resolves, the chat send button and the chat input stay
\* disabled and the loading overlay stays shown.
C12_BusyUntilResolved ==
    inflight # {} => (chatSendBtnDisabled /\ chatInputDisabled /\ ~loadingHidden)

(***************************************************************************)
(* Further properties of computeAndDisplayStats                            *)
(***************************************************************************)
\* the sum of count over the entries at the indices of I
RECURSIVE SumAt(_, _)
SumAt(entries, I) ==
    IF I = {} THEN 0
    ELSE LET i == CHOOSE k \in I : TRUE IN
         NumVal(entries[i].count) + SumAt(entries, I \ {i})

\* the entries of the deck whose name is in the catalog
KnownAt(entries) == {i \in 1..Len(entries) : entries[i].name \in DOMAIN cardDataMap}

\* Land if the type line contains "Land", else Creature if it contains
\* "Creature", else Spell
ClassOf(name) ==
    IF Includes(cardDataMap[name].typeLine, <<"L", "a", "n", "d">>) THEN "Land"
    ELSE IF Includes(cardDataMap[name].typeLine, <<"C", "r", "e", "a", "t", "u", "r", "e">>) THEN "Creature"
    ELSE "Spell"

\* min(floor(cmc), 7), the cmc held in halves
BucketOf(name) ==
    IF cardDataMap[name].cmc2 >= 2 * CurveCap THEN CurveCap
    ELSE cardDataMap[name].cmc2 \div 2

ClassAt(entries, class) == {i \in KnownAt(entries) : ClassOf(entries[i].name) = class}

\* C18: the count of every main-deck entry whose name is in the catalog is
\* added to exactly one of lands, creatures and spells, by its type line, and,
\* when it is no land, to exactly one curve bucket, that of min(floor(cmc), 7).
C18_ClassAndBucket ==
    (/\ pstep \in {"stats", "threw"}
     /\ \E i \in KnownAt(parsed.deck) : NumVal(parsed.deck[i].count) > 0) =>
        /\ pstep = "stats"
        /\ stats.totalLands = SumAt(parsed.deck, ClassAt(parsed.deck, "Land"))
        /\ stats.totalCreatures = SumAt(parsed.deck, ClassAt(parsed.deck, "Creature"))
        /\ stats.totalSpells = SumAt(parsed.deck, ClassAt(parsed.deck, "Spell"))
        /\ \A b \in 0..CurveCap :
              stats.curve[b + 1] =
                  SumAt(parsed.deck,
                        {i \in KnownAt(parsed.deck) :
                            /\ ClassOf(parsed.deck[i].name) # "Land"
                            /\ BucketOf(parsed.deck[i].name) = b})

(***************************************************************************)
(* The sections of parseDeckList                                           *)
(***************************************************************************)
\* the entry a line of the shape <count>[x] <name> stands for
EntryOfLine(l) ==
    LET m == MatchEntry(Trim(l)) IN
    [count |-> StripLeadingZeros(m.digits), name |-> Trim(m.rest)]

\* the entries of the lines of lines[i..] of entry shape read in the section
RECURSIVE EntriesIn(_, _, _)
EntriesIn(lines, i, section) ==
    IF i > Len(lines) THEN <<>>
    ELSE IF LineHasEntryShape(lines[i]) /\ ~LineIsHeader(lines[i])
            /\ SectionAt(lines, i) = section
         THEN <<EntryOfLine(lines[i])>> \o EntriesIn(lines, i + 1, section)
         ELSE EntriesIn(lines, i + 1, section)

\* the lists and the section of parseDeckList after the last line
ParserEnd == ParseLines(ParserStart, ReplyLines, 1)

\* C21: the section after the last line is that of the last line whose
\* trimmed text equals "deck" or "sideboard" without regard to case (none
\* before the first such line); the main deck is exactly the entry-shaped
\* lines read in the deck section and the sideboard exactly those read in the
\* sideboard section, in the order of the lines, so that an entry-shaped line
\* before any header is in neither list; no header line is part of the
\* explanation.
C21_SectionsOfLines ==
    pstep # "text" =>
        /\ ParserEnd.currentSection = SectionAt(ReplyLines, Len(ReplyLines) + 1)
        /\ ParserEnd.deck = EntriesIn(ReplyLines, 1, "deck")
        /\ ParserEnd.sideboard = EntriesIn(ReplyLines, 1, "sideboard")
        /\ \A k \in 1..Len(ParserEnd.explanation) :
              ~LineIsHeader(ParserEnd.explanation[k])
        /\ parsed # NoDeck =>
              /\ parsed.deck = EntriesIn(ReplyLines, 1, "deck")
              /\ parsed.sideboard = EntriesIn(ReplyLines, 1, "sideboard")

\* an entry-shaped line came before any header, a line holding the word
\* "deck" inside a sentence came after the deck's entry, and the deck has
\* only the entry read after the header
C21_Witness ==
    /\ pstep # "text"
    /\ Len(ReplyLines) = 4
    /\ LineHasEntryShape(ReplyLines[1])
    /\ LineIsDeckHeader(ReplyLines[2])
    /\ LineHasEntryShape(ReplyLines[3])
    /\ ReplyLines[4] = LineProse
    /\ parsed.deck = <<EntryOfLine(ReplyLines[3])>>
    /\ parsed.explanation = LineProse
    /\ ParserEnd.currentSection = "deck"


\* the entries of the main deck listed as unrecognized
UnrecognizedAt(entries) ==
    {i \in 1..Len(entries) : entries[i].name \in Range(stats.unrecognized)}

\* C22: for every main deck and catalog the totals shown partition the deck:
\* creatures + spells + lands + the counts of the unrecognized entries equal
\* the total, and the three type totals alone equal the total exactly when no
\* entry is unrecognized.
C22_TotalsPartitionDeck ==
    pstep \in {"stats", "threw"} =>
        /\ pstep = "stats"
        /\ stats.totalCreatures + stats.totalSpells + stats.totalLands
              + SumAt(parsed.deck, UnrecognizedAt(parsed.deck)) = stats.totalCards
        /\ (stats.totalCreatures + stats.totalSpells + stats.totalLands = stats.totalCards)
              <=> (stats.unrecognized = <<>>)

\* C23: whenever no request is in flight, the generate button is enabled only
\* if the trimmed API key is longer than 10 characters, after any sequence of
\* key edits, chat sends, generate clicks and request resolutions.
C23_GenerateNeedsLongKey ==
    (inflight = {} /\ ~generateBtnDisabled) => Len(Trim(apiKey)) > KeyMinLength

(***************************************************************************)
(* The proxies, each applied to one request at a time                      *)
(***************************************************************************)
\* a request on its way to a proxy
Exchange(handler, request, keySet, answer) ==
    [handler |-> handler, request |-> request, keySet |-> keySet, answer |-> answer]

InitProxy ==
    /\ InitApp
    /\ PageIdle
    /\ InitRequests
    /\ dbRows = <<>>
    /\ \E request \in Requests, keySet \in BOOLEAN :
          exchange = Exchange("none", request, keySet, NoExchange.answer)
    /\ replyText = <<>>
    /\ parsed = NoDeck
    /\ reparsed = NoDeck
    /\ filtered = NoFilter
    /\ cardListText = <<>>
    /\ pstep = "request"

\* the request reaches the worker of src/unnamed/part_000
WorkerRequest ==
    /\ pstep = "request"
    /\ \E up \in UpstreamPool :
          exchange' = [exchange EXCEPT
                          !.handler = "worker",
                          !.answer = WorkerFetch(exchange.request, exchange.keySet, up)]
    /\ pstep' = "answered"
    /\ UNCHANGED <<appVars, pageVars, requestVars, dbRows, replyText, parsed, reparsed,
                   filtered, cardListText>>

\* the request reaches the worker of src/app.js
AppWorkerRequest ==
    /\ pstep = "request"
    /\ \E up \in UpstreamPool :
          exchange' = [exchange EXCEPT
                          !.handler = "app",
                          !.answer = AppWorkerFetch(exchange.request, exchange.keySet, up)]
    /\ pstep' = "answered"
    /\ UNCHANGED <<appVars, pageVars, requestVars, dbRows, replyText, parsed, reparsed,
                   filtered, cardListText>>

\* the request, a POST, reaches /api/chat of the Pages site: the export is
\* named onRequestPost, so no other method is handed to it
PagesRequest ==
    /\ pstep = "request"
    /\ exchange.request.method = "POST"
    /\ \E up \in UpstreamPool :
          exchange' = [exchange EXCEPT
                          !.handler = "pages",
                          !.answer = onRequestPost(exchange.request, exchange.keySet, up)]
    /\ pstep' = "answered"
    /\ UNCHANGED <<appVars, pageVars, requestVars, dbRows, replyText, parsed, reparsed,
                   filtered, cardListText>>

NextProxy == WorkerRequest \/ AppWorkerRequest \/ PagesRequest

SpecProxy == InitProxy /\ [][NextProxy]_vars

\* the origins a handler lists as allowed; the Pages function lists none
OriginsListedBy(handler) ==
    IF handler = "worker" THEN Range(ALLOWED_ORIGINS)
    ELSE IF handler = "app" THEN Range(ALLOWED_ORIGINS_app)
    ELSE {}

\* C24: a proxy fetches the service only for a POST request whose Origin is
\* in ALLOWED_ORIGINS and whose body.messages is a non-empty array; any other
\* request is answered without a fetch of the service (OPTIONS 204, other
\* non-POST 405, origin not allowed 403, bad messages 400, unreadable body
\* 500), and the max_tokens sent to the service never exceeds 8000.
C24_UpstreamOnlyForValidPost ==
    exchange.handler # "none" =>
        LET request == exchange.request
            answer == exchange.answer
            valid == /\ request.method = "POST"
                     /\ request.origin \in OriginsListedBy(exchange.handler)
                     /\ request.body.json = "object"
                     /\ request.body.messagesKind = "array"
                     /\ request.body.messagesLen > 0
        IN  /\ answer.called => valid
            /\ answer.called => answer.payload.max_tokens <= MaxTokensCap
            /\ (~valid /\ exchange.keySet) =>
                  /\ ~answer.called
                  /\ answer.status =
                        IF request.method = "OPTIONS" THEN 204
                        ELSE IF request.method # "POST" THEN 405
                        ELSE IF request.origin \notin OriginsListedBy(exchange.handler) THEN 403
                        ELSE IF request.body.json # "object" THEN 500
                        ELSE 400
=============================================================================
